---- MODULE Spec2Model ----
(***************************************************************************)
(* pyfactx: profile-gated serialization of a Factur-X document graph and   *)
(* the monetary consistency rules of the header summation.                 *)
(*                                                                         *)
(* Optional values are sequences: <<>> is Python's None, <<v>> a present   *)
(* value v.  Amounts are whole cents.                                      *)
(***************************************************************************)
EXTENDS Integers, Sequences, FiniteSets, TLC

VARIABLES
    pa, pb, pc,          \* operands of the profile comparisons
    cmp,                 \* results of the comparisons on (pa,pb), (pb,pc), (pa,pc)
    sumIn,               \* keyword arguments of TradeSettlementHeaderMonetarySummation(...)
    summation,           \* the constructed summation, None until constructed
    sumErr,              \* the ValueError raised by the constructor, None if it returned
    notes,               \* ExchangedDocument.included_notes
    items,               \* SupplyChainTradeTransaction.included_supply_chain_trade_line_items
    delivery,            \* fields of the HeaderTradeDelivery
    deliveryProfile,     \* its instance attribute _current_profile
    settlement,          \* fields of the HeaderTradeSettlement
    settlementProfile,   \* its instance attribute _current_profile
    result,              \* what the most recent call returned or raised
    txIn,                \* the line-item list passed to SupplyChainTradeTransaction(...)
    txErr,               \* the ValueError its constructor raised, None if it returned
    earlier,             \* a result the caller kept, and the profiles rendered since
    calls,               \* the to_xml calls in progress: position and profile of each caller
    writers,             \* for each attribute of the graph, the callers whose call wrote it
    generated,           \* what FacturXGenerator.generate returned or raised
    dateIn,              \* a date-valued field and the datetime passed for it
    dateOut,             \* what constructing and rendering it gave
    part,                \* an object of the graph taken on its own: its class and fields
    partOut              \* what the most recent call on it returned or raised

profileVars == <<pa, pb, pc, cmp>>
moneyVars == <<sumIn, summation, sumErr>>
graphVars == <<notes, items, delivery, deliveryProfile, settlement, settlementProfile, result>>
txVars == <<txIn, txErr>>
callVars == <<calls, writers>>
keptVars == <<earlier, generated>>
dateVars == <<dateIn, dateOut>>
partVars == <<part, partOut>>
extVars == <<txIn, txErr, earlier, calls, writers, generated, dateIn, dateOut>>
vars == <<pa, pb, pc, cmp, sumIn, summation, sumErr,
          notes, items, delivery, deliveryProfile, settlement, settlementProfile, result,
          txIn, txErr, earlier, calls, writers, generated, dateIn, dateOut,
          part, partOut>>

None == <<>>
Some(v) == <<v>>
IsNone(o) == o = <<>>
Get(o) == o[1]

(***************************************************************************)
(* InvoiceProfile                                                          *)
(***************************************************************************)
Profiles == {"MINIMUM", "BASICWL", "BASIC", "EN16931", "EXTENDED"}

\* The enum values (URN strings) as sequences of character codes.
UrnMinimum ==
    <<117, 114, 110, 58, 102, 97, 99, 116, 117, 114, 45, 120, 46, 101, 117, 58,
      49, 112, 48, 58, 109, 105, 110, 105, 109, 117, 109>>
UrnBasicWL ==
    <<117, 114, 110, 58, 102, 97, 99, 116, 117, 114, 45, 120, 46, 101, 117, 58,
      49, 112, 48, 58, 98, 97, 115, 105, 99, 119, 108>>
UrnBasic ==
    <<117, 114, 110, 58, 99, 101, 110, 46, 101, 117, 58, 101, 110, 49, 54, 57,
      51, 49, 58, 50, 48, 49, 55, 35, 99, 111, 109, 112, 108, 105, 97, 110, 116,
      35, 117, 114, 110, 58, 102, 97, 99, 116, 117, 114, 45, 120, 46, 101, 117,
      58, 49, 112, 48, 58, 98, 97, 115, 105, 99>>
UrnEN16931 ==
    <<117, 114, 110, 58, 99, 101, 110, 46, 101, 117, 58, 101, 110, 49, 54, 57,
      51, 49, 58, 50, 48, 49, 55>>
UrnExtended ==
    <<117, 114, 110, 58, 99, 101, 110, 46, 101, 117, 58, 101, 110, 49, 54, 57,
      51, 49, 58, 50, 48, 49, 55, 35, 99, 111, 110, 102, 111, 114, 109, 97, 110,
      116, 35, 117, 114, 110, 58, 102, 97, 99, 116, 117, 114, 45, 120, 46, 101,
      117, 58, 49, 112, 48, 58, 101, 120, 116, 101, 110, 100, 101, 100>>

\* InvoiceProfile.<member>.value
Value(p) ==
    CASE p = "MINIMUM" -> UrnMinimum
      [] p = "BASICWL" -> UrnBasicWL
      [] p = "BASIC" -> UrnBasic
      [] p = "EN16931" -> UrnEN16931
      [] p = "EXTENDED" -> UrnExtended

\* Python's str.__lt__: code-point lexicographic order (what StrEnum would use
\* if the comparison methods were not overridden).
StrLess(s, t) ==
    LET shorter == IF Len(s) < Len(t) THEN Len(s) ELSE Len(t)
        differ == {i \in 1..shorter : s[i] # t[i]}
    IN  IF differ = {} THEN Len(s) < Len(t)
        ELSE LET first == CHOOSE i \in differ : \A j \in differ : i <= j
             IN  s[first] < t[first]

\* _invoice_profile_order[urn]
InvoiceProfileOrderLexical(urn) ==
    Cardinality({q \in Profiles : StrLess(Value(q), urn)})
InvoiceProfileOrder(urn) ==
    CASE urn = UrnMinimum -> 0
      [] urn = UrnBasicWL -> 1
      [] urn = UrnBasic -> 2
      [] urn = UrnEN16931 -> 3
      [] urn = UrnExtended -> 4

\* _invoice_profile_order[str(p.value)] for each member p
OrderOf == [p \in Profiles |-> InvoiceProfileOrder(Value(p))]

ProfileLt(a, b) == OrderOf[a] < OrderOf[b]
ProfileLe(a, b) == OrderOf[a] <= OrderOf[b]
ProfileGt(a, b) == OrderOf[a] > OrderOf[b]
ProfileGe(a, b) == OrderOf[a] >= OrderOf[b]

\* The four operators applied to one pair of profiles.
Compare4(a, b) ==
    [lt |-> ProfileLt(a, b), le |-> ProfileLe(a, b),
     gt |-> ProfileGt(a, b), ge |-> ProfileGe(a, b),
     eq |-> (Value(a) = Value(b)),
     strlt |-> StrLess(Value(a), Value(b))]

(***************************************************************************)
(* TradeSettlementHeaderMonetarySummation                                  *)
(***************************************************************************)
MaxOperand == 1
MaxTotal == 4

\* Optional[float] fields and required float fields, in cents.
OptionalAmounts == {None} \cup {Some(v) : v \in 0..MaxOperand}
RequiredAmounts == 0..MaxTotal

SummationInputs ==
    [line_total_amount : OptionalAmounts,
     charge_total_amount : OptionalAmounts,
     allowance_total_amount : OptionalAmounts,
     tax_basis_total_amount : RequiredAmounts,
     tax_total_amount : OptionalAmounts,
     rounding_amount : OptionalAmounts,
     grand_total_amount : RequiredAmounts,
     total_prepaid_amount : OptionalAmounts,
     due_payable_amount : RequiredAmounts]

\* abs(x)
Abs(x) == IF x < 0 THEN -x ELSE x

\* Python's (x or 0) on an Optional[float]: None and 0.0 both give 0.
OrZero(o) == IF IsNone(o) THEN 0 ELSE IF Get(o) = 0 THEN 0 ELSE Get(o)

\* The literal 0.02 of the three comparisons, in cents.  Amounts here are whole
\* cents and the arithmetic is exact; FloatValidateAmounts evaluates the same
\* comparisons in binary64, where a difference of exactly two cents can come
\* out above 0.02.
Tolerance == 2

\* all(x is not None for x in [line_total, charge_total, allowance_total])
Rule1AppliesLineOnly(s) == ~IsNone(s.line_total_amount)
Rule1Applies(s) ==
    /\ ~IsNone(s.line_total_amount)
    /\ ~IsNone(s.charge_total_amount)
    /\ ~IsNone(s.allowance_total_amount)

ExpectedTaxBasis(s) ==
    Get(s.line_total_amount) + OrZero(s.charge_total_amount) - OrZero(s.allowance_total_amount)
ExpectedGrandTotalNoRounding(s) ==
    s.tax_basis_total_amount + OrZero(s.tax_total_amount)
ExpectedGrandTotal(s) ==
    s.tax_basis_total_amount + OrZero(s.tax_total_amount) + OrZero(s.rounding_amount)
ExpectedDuePayableNoPrepaid(s) == s.grand_total_amount
ExpectedDuePayable(s) ==
    s.grand_total_amount - OrZero(s.total_prepaid_amount)

Rule1Violated(s) ==
    Rule1Applies(s) /\ Abs(ExpectedTaxBasis(s) - s.tax_basis_total_amount) > Tolerance
Rule2Violated(s) ==
    Abs(ExpectedGrandTotal(s) - s.grand_total_amount) > Tolerance
Rule3Violated(s) ==
    Abs(ExpectedDuePayable(s) - s.due_payable_amount) > Tolerance

\* The ValueError of each rule: its message and the values formatted into the
\* message (the messages are plain string literals, so there are none).
Rule1Error ==
    [args |-> <<>>,
     message |-> "Tax basis total amount must equal: line total + charges - allowances"]
Rule2Error ==
    [args |-> <<>>,
     message |-> "Grand total must equal: tax basis + tax total + rounding amount"]
Rule3Error ==
    [args |-> <<>>,
     message |-> "Due payable amount must equal: grand total - prepaid amount"]

\* validate_amounts: None when it returns self, Some(error) when it raises.
ValidateAmountsRule3First(s) ==
    IF Rule3Violated(s) THEN Some(Rule3Error)
    ELSE IF Rule1Violated(s) THEN Some(Rule1Error)
    ELSE IF Rule2Violated(s) THEN Some(Rule2Error)
    ELSE None
ValidateAmounts(s) ==
    IF Rule1Violated(s) THEN Some(Rule1Error)
    ELSE IF Rule2Violated(s) THEN Some(Rule2Error)
    ELSE IF Rule3Violated(s) THEN Some(Rule3Error)
    ELSE None

\* TradeSettlementHeaderMonetarySummation(**sumIn): the model validator runs on
\* the new instance; the instance exists only if it returns.
ConstructSummation ==
    /\ IsNone(summation) /\ IsNone(sumErr)
    /\ LET e == ValidateAmounts(sumIn) IN
         /\ sumErr' = e
         /\ summation' = IF IsNone(e) THEN Some(sumIn) ELSE None
    /\ UNCHANGED <<sumIn, profileVars, graphVars, extVars, partVars>>

(***************************************************************************)
(* Rendering: an element is its tag and, for a note or a line item, the    *)
(* note content or line id it was rendered from (0 otherwise).  A to_xml   *)
(* call returns its element's children or raises a ValueError.             *)
(***************************************************************************)
El(tag, id) == [tag |-> tag, id |-> id]
Returned(children) == [raised |-> FALSE, message |-> "", children |-> children]
Raised(msg) == [raised |-> TRUE, message |-> msg, children |-> <<>>]

\* for x in xs: root.append(x.to_xml(name, profile))
RECURSIVE AppendEach(_, _, _)
AppendEach(root, xs, name) ==
    IF xs = <<>> THEN root
    ELSE AppendEach(Append(root, El(name, Head(xs))), Tail(xs), name)

(***************************************************************************)
(* ExchangedDocument                                                       *)
(***************************************************************************)
MAX_NOTES == 10
MaxNotes == 2
NoteContents == 1..MaxNotes

\* The lists a caller may pass as included_notes.
NoteLists == UNION {[1..k -> NoteContents] : k \in 0..MaxNotes}

\* validate_notes: None when it returns self, Some(message) when it raises.
ValidateNotes(ns) ==
    IF ~IsNone(ns) /\ Get(ns) # <<>>
    THEN IF Len(Get(ns)) > MAX_NOTES
         THEN Some("Number of notes cannot exceed 10")
         ELSE IF Len(Get(ns)) # Cardinality({Get(ns)[i] : i \in 1..Len(Get(ns))})
         THEN Some("Duplicate notes are not allowed")
         ELSE None
    ELSE None

\* The values included_notes has after a successful construction.
ConstructedNotes ==
    {ns \in {None} \cup {Some(l) : l \in NoteLists} : IsNone(ValidateNotes(ns))}

\* if profile >= InvoiceProfile.BASICWL and self.included_notes
NotesGateAlways(ns, p) == ~IsNone(ns) /\ Get(ns) # <<>>
NotesGate(ns, p) == ProfileGe(p, "BASICWL") /\ ~IsNone(ns) /\ Get(ns) # <<>>

\* ExchangedDocument.to_xml
ExchangedDocumentToXml(ns, p) ==
    LET fixed == <<El("ID", 0), El("TypeCode", 0), El("IssueDateTime", 0)>> IN
    IF NotesGate(ns, p)
    THEN AppendEach(fixed, Get(ns), "IncludedNote")
    ELSE fixed

(***************************************************************************)
(* HeaderTradeDelivery                                                     *)
(***************************************************************************)
Present == {None, Some(1)}

DeliveryValues ==
    [ship_to_trade_party : Present,
     actual_delivery_supply_chain_event : Present,
     despatch_advice_referenced_document : Present,
     receiving_advice_referenced_document : Present]

EmptyDelivery ==
    [ship_to_trade_party |-> None,
     actual_delivery_supply_chain_event |-> None,
     despatch_advice_referenced_document |-> None,
     receiving_advice_referenced_document |-> None]

\* HeaderTradeDelivery.validate_profile_specific_fields, run at construction and
\* on every assignment; cp is getattr(self, '_current_profile', None).
DeliveryValidateProfileSpecificFields(d, cp) ==
    IF IsNone(cp) THEN None
    ELSE IF /\ ProfileLt(Get(cp), "BASICWL")
            /\ \/ ~IsNone(d.ship_to_trade_party)
               \/ ~IsNone(d.actual_delivery_supply_chain_event)
               \/ ~IsNone(d.despatch_advice_referenced_document)
    THEN Some("Ship-to, delivery event, and dispatch advice are only allowed in BASICWL profile and above")
    ELSE IF ProfileLt(Get(cp), "EN16931") /\ ~IsNone(d.receiving_advice_referenced_document)
    THEN Some("Receiving advice document is only allowed in EN16931 profile and above")
    ELSE None

\* HeaderTradeDelivery._append_element_if_valid
AppendElementIfValidNoGate(root, field_value, element_name, profile, min_profile) ==
    IF ~IsNone(field_value) THEN Append(root, El(element_name, 0)) ELSE root
AppendElementIfValid(root, field_value, element_name, profile, min_profile) ==
    IF ~IsNone(field_value) /\ ProfileGe(profile, min_profile)
    THEN Append(root, El(element_name, 0))
    ELSE root

\* HeaderTradeDelivery.to_xml: the children of the element it returns.
HeaderTradeDeliveryToXml(d, p) ==
    LET r1 == AppendElementIfValid(<<>>, d.ship_to_trade_party,
                                   "ShipToTradeParty", p, "BASICWL")
        r2 == AppendElementIfValid(r1, d.actual_delivery_supply_chain_event,
                                   "ActualDeliverySupplyChainEvent", p, "BASICWL")
        r3 == AppendElementIfValid(r2, d.despatch_advice_referenced_document,
                                   "DespatchAdviceReferencedDocument", p, "BASICWL")
        r4 == AppendElementIfValid(r3, d.receiving_advice_referenced_document,
                                   "ReceivingAdviceReferencedDocument", p, "EN16931")
    IN r4

(***************************************************************************)
(* TradeSettlementPaymentMeans                                             *)
(***************************************************************************)
PaymentMeansCodes ==
    {"CASH", "CREDIT_TRANSFER", "SEPA_CREDIT_TRANSFER", "CREDIT_CARD", "DEBIT_CARD"}

\* The payment means a caller can construct: no validator relates the code to
\* the card or to the creditor account.
PaymentMeansValues ==
    [payment_means_code : PaymentMeansCodes,
     applicable_trade_settlement_financial_card : Present,
     payee_party_creditor_financial_account : Present]

\* validate_payment_details: None when it returns, Some(message) when it raises.
ValidatePaymentDetails(m) ==
    IF /\ m.payment_means_code \in {"CREDIT_CARD", "DEBIT_CARD"}
       /\ IsNone(m.applicable_trade_settlement_financial_card)
    THEN Some("Card details required for payment means code")
    ELSE IF /\ m.payment_means_code \in {"CREDIT_TRANSFER", "SEPA_CREDIT_TRANSFER"}
            /\ IsNone(m.payee_party_creditor_financial_account)
    THEN Some("Creditor account details required for payment means code")
    ELSE None

\* TradeSettlementPaymentMeans.to_xml begins with validate_payment_details():
\* the error of the first payment means of the list whose to_xml raises.
RECURSIVE FirstPaymentMeansError(_)
FirstPaymentMeansError(ms) ==
    IF ms = <<>> THEN None
    ELSE IF ~IsNone(ValidatePaymentDetails(Head(ms))) THEN ValidatePaymentDetails(Head(ms))
    ELSE FirstPaymentMeansError(Tail(ms))

(***************************************************************************)
(* HeaderTradeSettlement                                                   *)
(***************************************************************************)
\* The fields validate_profile_specific_fields lists as BASICWL fields.
BasicWLFields ==
    <<"creditor_reference_id", "payment_reference", "tax_currency_code",
      "payee_trade_party", "specified_trade_settlement_payment_means",
      "applicable_trade_tax", "billing_specified_period",
      "specified_trade_allowance_charge", "specified_trade_payment_terms",
      "invoice_referenced_documents", "receivable_specified_trade_accounting_account">>

EmptySettlement ==
    [invoice_currency_code |-> "EUR",
     creditor_reference_id |-> None,
     payment_reference |-> None,
     tax_currency_code |-> None,
     payee_trade_party |-> None,
     specified_trade_settlement_payment_means |-> None,
     applicable_trade_tax |-> None,
     billing_specified_period |-> None,
     specified_trade_allowance_charge |-> None,
     specified_trade_payment_terms |-> None,
     invoice_referenced_documents |-> None,
     receivable_specified_trade_accounting_account |-> None]

\* HeaderTradeSettlement.validate_profile_specific_fields, run at construction
\* and on every assignment; cp is getattr(self, '_current_profile', None).
SettlementValidateProfileSpecificFields(st, cp) ==
    IF IsNone(cp) THEN None
    ELSE IF /\ ProfileLt(Get(cp), "BASICWL")
            /\ \E i \in 1..Len(BasicWLFields) : ~IsNone(st[BasicWLFields[i]])
    THEN Some("is only allowed in BASICWL profile and above")
    ELSE None

\* HeaderTradeSettlement._add_text_element
AddTextElement(root, value, element_name, profile, min_profile) ==
    IF ~IsNone(value) /\ ProfileGe(profile, min_profile)
    THEN Append(root, El(element_name, 0))
    ELSE root

\* HeaderTradeSettlement._add_object_element
AddObjectElement(root, obj, element_name, profile, min_profile) ==
    IF ~IsNone(obj) /\ ProfileGe(profile, min_profile)
    THEN Append(root, El(element_name, 0))
    ELSE root

\* HeaderTradeSettlement._add_list_elements, for lists whose items render
\* without raising.
AddListElements(root, lst, element_name, profile, min_profile) ==
    IF ~IsNone(lst) /\ ProfileGe(profile, min_profile)
    THEN AppendEach(root, [i \in 1..Len(Get(lst)) |-> 0], element_name)
    ELSE root

\* HeaderTradeSettlement.to_xml
HeaderTradeSettlementToXml(st, p) ==
    LET r1 == AddTextElement(<<>>, st.creditor_reference_id, "CreditorReferenceID", p, "BASICWL")
        r2 == AddTextElement(r1, st.payment_reference, "PaymentReference", p, "BASICWL")
        r3 == AddTextElement(r2, st.tax_currency_code, "TaxCurrencyCode", p, "BASICWL")
        r4 == Append(r3, El("InvoiceCurrencyCode", 0))
        r5 == AddObjectElement(r4, st.payee_trade_party, "PayeeTradeParty", p, "BASICWL")
        r6 == AddObjectElement(r5, st.billing_specified_period, "BillingSpecifiedPeriod", p, "BASICWL")
        r7 == AddObjectElement(r6, st.specified_trade_payment_terms,
                               "SpecifiedTradePaymentTerms", p, "BASICWL")
        means == st.specified_trade_settlement_payment_means
        meansErr == IF ~IsNone(means) /\ ProfileGe(p, "BASICWL")
                    THEN FirstPaymentMeansError(Get(means))
                    ELSE None
        r8 == AddListElements(r7, means, "SpecifiedTradeSettlementPaymentMeans", p, "BASICWL")
        r9 == AddListElements(r8, st.applicable_trade_tax, "ApplicableTradeTax", p, "BASICWL")
        r10 == AddListElements(r9, st.specified_trade_allowance_charge,
                               "SpecifiedTradeAllowanceCharge", p, "BASICWL")
        r11 == AddListElements(r10, st.invoice_referenced_documents,
                               "InvoiceReferencedDocument", p, "BASICWL")
        r12 == Append(r11, El("SpecifiedTradeSettlementHeaderMonetarySummation", 0))
        r13 == AddObjectElement(r12, st.receivable_specified_trade_accounting_account,
                                "ReceivableSpecifiedTradeAccountingAccount", p, "BASICWL")
    IN IF ~IsNone(meansErr) THEN Raised(Get(meansErr)) ELSE Returned(r13)

(***************************************************************************)
(* SupplyChainTradeTransaction                                             *)
(***************************************************************************)
MaxItems == 2
LineIds == 1..MaxItems

\* The lists a caller may pass as included_supply_chain_trade_line_items, each
\* line item given by the line_id of its associated document.
LineItemLists == UNION {[1..k -> LineIds] : k \in 0..MaxItems}

\* A validate_transaction that compares each line item with the next one only.
ValidateTransactionAdjacent(its) ==
    IF ~IsNone(its) /\ Get(its) # <<>>
    THEN IF \E i \in 1..(Len(Get(its)) - 1) : Get(its)[i] = Get(its)[i + 1]
         THEN Some("Duplicate line ID")
         ELSE None
    ELSE None

\* validate_transaction: None when it returns self, Some(message) when it raises
\* (no instance has an attribute _profile, so its first test never applies).
ValidateTransaction(its) ==
    IF ~IsNone(its) /\ Get(its) # <<>>
    THEN IF Len(Get(its)) > 999999
         THEN Some("Maximum number of line items exceeded (999999)")
         ELSE IF \E i, j \in 1..Len(Get(its)) : i < j /\ Get(its)[i] = Get(its)[j]
         THEN Some("Duplicate line ID")
         ELSE None
    ELSE None

\* The values the line-item list has after a successful construction.
ConstructedItems ==
    {its \in {None} \cup {Some(l) : l \in LineItemLists} : IsNone(ValidateTransaction(its))}

\* if profile >= InvoiceProfile.BASIC: if self.included_supply_chain_trade_line_items
LineItemsGateBasicWL(its, p) == ProfileGe(p, "BASICWL") /\ ~IsNone(its) /\ Get(its) # <<>>
LineItemsGate(its, p) == ProfileGe(p, "BASIC") /\ ~IsNone(its) /\ Get(its) # <<>>

\* SupplyChainTradeTransaction.to_xml, given what the settlement's to_xml did.
SupplyChainTradeTransactionToXml(its, settlementXml, p) ==
    LET r1 == IF LineItemsGate(its, p)
              THEN AppendEach(<<>>, Get(its), "IncludedSupplyChainTradeLineItem")
              ELSE <<>>
        r2 == Append(r1, El("ApplicableHeaderTradeAgreement", 0))
        r3 == Append(r2, El("ApplicableHeaderTradeDelivery", 0))
        r4 == Append(r3, El("ApplicableHeaderTradeSettlement", 0))
    IN IF settlementXml.raised THEN Raised(settlementXml.message) ELSE Returned(r4)

(***************************************************************************)
(* FacturXData                                                             *)
(***************************************************************************)
RSM == "rsm"
RAM == "ram"
QDT == "qdt"
UDT == "udt"
XSI == "xsi"

\* NAMESPACES with the xsi entry left out.
NamespacesWithoutXsi ==
    (RSM :> "urn:un:unece:uncefact:data:standard:CrossIndustryInvoice:100")
    @@ (RAM :> "urn:un:unece:uncefact:data:standard:ReusableAggregateBusinessInformationEntity:100")
    @@ (QDT :> "urn:un:unece:uncefact:data:standard:QualifiedDataType:100")
    @@ (UDT :> "urn:un:unece:uncefact:data:standard:UnqualifiedDataType:100")

NAMESPACES ==
    (RSM :> "urn:un:unece:uncefact:data:standard:CrossIndustryInvoice:100")
    @@ (RAM :> "urn:un:unece:uncefact:data:standard:ReusableAggregateBusinessInformationEntity:100")
    @@ (QDT :> "urn:un:unece:uncefact:data:standard:QualifiedDataType:100")
    @@ (UDT :> "urn:un:unece:uncefact:data:standard:UnqualifiedDataType:100")
    @@ (XSI :> "http://www.w3.org/2001/XMLSchema-instance")

ROOT_ELEMENT == "CrossIndustryInvoice"

\* ET.Element(f"{{{ns}}}{name}"): a namespace-qualified tag.
QName(ns, name) == [ns |-> ns, name |-> name]
NoTag == QName("", "")
NoNsmap == [k \in {} |-> ""]

NoTree == [tag |-> NoTag, nsmap |-> NoNsmap,
           root |-> <<>>, document |-> <<>>, transaction |-> <<>>,
           delivery |-> <<>>, settlement |-> <<>>]

\* FacturXData.to_xml("CrossIndustryInvoice", p): the tree it returns (the
\* root's tag and nsmap, the children of the root, of the document, of the
\* transaction and of the two headers), or the ValueError it
\* raises in place of the one a child raised.
FacturXDataToXmlResult(ns, its, d, st, p) ==
    LET doc == ExchangedDocumentToXml(ns, p)
        del == HeaderTradeDeliveryToXml(d, p)
        stl == HeaderTradeSettlementToXml(st, p)
        txn == SupplyChainTradeTransactionToXml(its, stl, p)
    IN IF txn.raised
       THEN [op |-> "to_xml", profile |-> Some(p), raised |-> TRUE,
             message |-> "Failed to create XML document", cause |-> txn.message,
             tree |-> NoTree]
       ELSE [op |-> "to_xml", profile |-> Some(p), raised |-> FALSE,
             message |-> "", cause |-> "",
             tree |-> [tag |-> QName(NAMESPACES[RSM], ROOT_ELEMENT),
                       nsmap |-> NAMESPACES,
                       root |-> <<El("ExchangedDocumentContext", 0),
                                  El("ExchangedDocument", 0),
                                  El("SupplyChainTradeTransaction", 0)>>,
                       document |-> doc,
                       transaction |-> txn.children,
                       delivery |-> del,
                       settlement |-> stl.children]]

NoResult == [op |-> "none", profile |-> None, raised |-> FALSE,
             message |-> "", cause |-> "", tree |-> NoTree]

\* A to_xml that gates on the profile a header has stored, when it has one.
FacturXDataToXmlStale(p) ==
    /\ result' = [FacturXDataToXmlResult(notes, items, delivery, settlement,
                       IF IsNone(settlementProfile) THEN p ELSE Get(settlementProfile))
                  EXCEPT !.profile = Some(p)]
    /\ deliveryProfile' = Some(p)
    /\ settlementProfile' = Some(p)
    /\ UNCHANGED <<notes, items, delivery, settlement, profileVars, moneyVars, dateVars, txVars, callVars, partVars>>

\* data.to_xml("CrossIndustryInvoice", p).  The delivery's and the settlement's
\* to_xml both begin with self._current_profile = profile; the delivery is
\* rendered before the settlement, whose payment means may raise.
FacturXDataToXml(p) ==
    /\ result' = FacturXDataToXmlResult(notes, items, delivery, settlement, p)
    /\ deliveryProfile' = Some(p)
    /\ settlementProfile' = Some(p)
    /\ UNCHANGED <<notes, items, delivery, settlement, profileVars, moneyVars, dateVars, txVars, callVars, partVars>>

\* The values of the variables a specification does not use.
NotCompared == [ab |-> None, bc |-> None, ac |-> None]

IdleGraph ==
    /\ notes = None /\ items = None
    /\ delivery = EmptyDelivery /\ deliveryProfile = None
    /\ settlement = EmptySettlement /\ settlementProfile = None
    /\ result = NoResult
IdleMoney == sumIn = None /\ summation = None /\ sumErr = None
IdleProfile == pa = "MINIMUM" /\ pb = "MINIMUM" /\ pc = "MINIMUM" /\ cmp = NotCompared
IdleTx == txIn = None /\ txErr = None
NothingKept == [result |-> NoResult, between |-> {}]
IdleKept == earlier = NothingKept
Callers == {1, 2}
Locations == {"delivery._current_profile", "settlement._current_profile"}
NoCalls == [c \in Callers |-> [pc |-> "idle", profile |-> None]]
NoWriters == [l \in Locations |-> {}]
IdleCalls == calls = NoCalls /\ writers = NoWriters
NotGenerated == [op |-> "none", profile |-> None, validate_xslt |-> FALSE,
                 raised |-> FALSE, error |-> "", xml |-> None,
                 failed_asserts |-> {}, reports |-> {}]
IdleGenerator == generated = NotGenerated
IdleDate == dateIn = None /\ dateOut = None
IdlePart == part = None /\ partOut = None
IdleExt == IdleTx /\ IdleKept /\ IdleCalls /\ IdleGenerator /\ IdleDate /\ IdlePart

(***************************************************************************)
(* Assignment to a field of a header (validate_assignment=True)            *)
(***************************************************************************)
MaxPopulated == 2

\* The values of specified_trade_settlement_payment_means.
PaymentMeansFieldValues ==
    {None, Some(<<>>)} \cup {Some(<<m>>) : m \in PaymentMeansValues}

\* Values that are valid on their own for each field of the settlement.
SettlementFieldValues(f) ==
    IF f = "invoice_currency_code" THEN {"EUR"}
    ELSE IF f = "specified_trade_settlement_payment_means" THEN PaymentMeansFieldValues
    ELSE IF f \in {"applicable_trade_tax", "specified_trade_allowance_charge",
                   "invoice_referenced_documents"}
    THEN {None, Some(<<1>>)}
    ELSE Present

SettlementFields == DOMAIN EmptySettlement
DeliveryFields == DOMAIN EmptyDelivery

\* How many optional fields of the two headers are populated.
Populated(st, d) ==
    Cardinality({i \in 1..Len(BasicWLFields) : ~IsNone(st[BasicWLFields[i]])})
    + Cardinality({f \in DeliveryFields : ~IsNone(d[f])})

AssignResult(op, err) ==
    [op |-> op, profile |-> None, raised |-> ~IsNone(err),
     message |-> IF IsNone(err) THEN "" ELSE Get(err), cause |-> "", tree |-> NoTree]

\* settlement.<f> = v.  pydantic validates the value, stores it in the
\* instance's __dict__ and then runs the mode='after' model validator on the
\* instance; the value stays stored when the validator raises.
AssignSettlement(f, v) ==
    LET new == [settlement EXCEPT ![f] = v] IN
    /\ Populated(new, delivery) <= MaxPopulated
    /\ settlement' = new
    /\ result' = AssignResult("assign_settlement",
                              SettlementValidateProfileSpecificFields(new, settlementProfile))
    /\ UNCHANGED <<notes, items, delivery, deliveryProfile, settlementProfile,
                   profileVars, moneyVars, extVars, partVars>>

\* delivery.<f> = v
AssignDelivery(f, v) ==
    LET new == [delivery EXCEPT ![f] = v] IN
    /\ Populated(settlement, new) <= MaxPopulated
    /\ delivery' = new
    /\ result' = AssignResult("assign_delivery",
                              DeliveryValidateProfileSpecificFields(new, deliveryProfile))
    /\ UNCHANGED <<notes, items, settlement, deliveryProfile, settlementProfile,
                   profileVars, moneyVars, extVars, partVars>>

(***************************************************************************)
(* The life of a SupplyChainTradeTransaction: construction, then           *)
(* mutations of its line-item list                                         *)
(***************************************************************************)
MaxLineItems == 3

\* The lists a caller passes to the constructor.
TransactionInputs ==
    {None} \cup {Some(l) : l \in UNION {[1..k -> LineIds] : k \in 0..MaxLineItems}}

NotConstructed == result.op = "none"
TransactionBuilt == result.op # "none" /\ IsNone(txErr)

\* SupplyChainTradeTransaction(included_supply_chain_trade_line_items=txIn, ...):
\* the mode='after' validator validate_transaction decides.
ConstructTransaction ==
    /\ NotConstructed
    /\ ~IsNone(txIn)
    /\ txErr' = ValidateTransaction(Get(txIn))
    /\ items' = IF IsNone(ValidateTransaction(Get(txIn))) THEN Get(txIn) ELSE items
    /\ result' = AssignResult("construct_transaction", ValidateTransaction(Get(txIn)))
    /\ UNCHANGED <<txIn, keptVars, callVars, partVars, notes, delivery, deliveryProfile, settlement,
                   settlementProfile, profileVars, moneyVars, dateVars>>

\* transaction.included_supply_chain_trade_line_items = l: the list is stored
\* and validate_transaction then runs on the instance (validate_assignment).
ReassignItems(l) ==
    /\ TransactionBuilt
    /\ items' = l
    /\ result' = AssignResult("assign_items", ValidateTransaction(l))
    /\ UNCHANGED <<txIn, txErr, keptVars, callVars, partVars, notes, delivery, deliveryProfile, settlement,
                   settlementProfile, profileVars, moneyVars, dateVars>>

\* transaction.included_supply_chain_trade_line_items.append(item): a list
\* method, no validator runs.
AppendItem(id) ==
    /\ TransactionBuilt
    /\ ~IsNone(items)
    /\ Len(Get(items)) < MaxLineItems
    /\ items' = Some(Append(Get(items), id))
    /\ result' = AssignResult("append_item", None)
    /\ UNCHANGED <<txIn, txErr, keptVars, callVars, partVars, notes, delivery, deliveryProfile, settlement,
                   settlementProfile, profileVars, moneyVars, dateVars>>

\* items[i].associated_document_line_document.line_id = id: only the
\* DocumentLineDocument's own validators run (0 < id < 1000000).
AssignLineId(i, id) ==
    /\ TransactionBuilt
    /\ ~IsNone(items)
    /\ i \in 1..Len(Get(items))
    /\ items' = Some([Get(items) EXCEPT ![i] = id])
    /\ result' = AssignResult("assign_line_id", None)
    /\ UNCHANGED <<txIn, txErr, keptVars, callVars, partVars, notes, delivery, deliveryProfile, settlement,
                   settlementProfile, profileVars, moneyVars, dateVars>>

\* A render of the graph that holds the transaction.
RenderTransaction(p) ==
    /\ TransactionBuilt
    /\ FacturXDataToXml(p)
    /\ UNCHANGED keptVars

(***************************************************************************)
(* Specification of rendering: a constructed document graph is rendered at *)
(* any profile, any number of times.                                       *)
(***************************************************************************)
\* Settlements constructed with the given payment means and payment reference.
SettlementsWith(means, refs) ==
    {[EmptySettlement EXCEPT !.specified_trade_settlement_payment_means = m,
                             !.payment_reference = r] : m \in means, r \in refs}

\* Every list of notes and of line items with every delivery, or every payment
\* means with every delivery.
Init ==
    /\ \/ /\ notes \in ConstructedNotes
          /\ items \in ConstructedItems
          /\ settlement \in SettlementsWith({None}, Present)
       \/ /\ notes \in {None, Some(<<1>>)}
          /\ items \in {None, Some(<<1>>)}
          /\ settlement \in SettlementsWith(PaymentMeansFieldValues, Present)
    /\ delivery \in DeliveryValues
    /\ deliveryProfile = None
    /\ settlementProfile = None
    /\ result = NoResult
    /\ IdleProfile /\ IdleMoney /\ IdleExt

Render == \E p \in Profiles : FacturXDataToXml(p) /\ UNCHANGED keptVars

Next == Render
Spec == Init /\ [][Next]_vars

(***************************************************************************)
(* Specification of the headers' life: construction with no optional       *)
(* field, then renders and assignments in any order.                       *)
(***************************************************************************)
InitAssign ==
    /\ notes = Some(<<1>>)
    /\ items = Some(<<1>>)
    /\ delivery = EmptyDelivery
    /\ settlement = EmptySettlement
    /\ deliveryProfile = None
    /\ settlementProfile = None
    /\ result = NoResult
    /\ IdleProfile /\ IdleMoney /\ IdleExt

AssignSettlementField ==
    \E f \in SettlementFields : \E v \in SettlementFieldValues(f) : AssignSettlement(f, v)
AssignDeliveryField ==
    \E f \in DeliveryFields : \E v \in Present : AssignDelivery(f, v)

NextAssign == Render \/ AssignSettlementField \/ AssignDeliveryField
SpecAssign == InitAssign /\ [][NextAssign]_vars

(***************************************************************************)
(* Specification of repeated rendering: the caller keeps a returned result *)
(* and renders the same graph again, at any profiles.                      *)
(***************************************************************************)
InitRerender ==
    /\ notes = Some(<<1>>)
    /\ items = Some(<<1>>)
    /\ delivery \in DeliveryValues
    /\ settlement \in SettlementsWith({None, Some(<<>>)}, Present)
    /\ deliveryProfile = None
    /\ settlementProfile = None
    /\ result = NoResult
    /\ earlier = NothingKept
    /\ IdleProfile /\ IdleMoney /\ IdleTx /\ IdleCalls /\ IdleGenerator /\ IdleDate /\ IdlePart

\* kept = data.to_xml("CrossIndustryInvoice", p) of the latest call
KeepResult ==
    /\ result.op = "to_xml"
    /\ earlier' = [result |-> result, between |-> {}]
    /\ UNCHANGED <<graphVars, profileVars, moneyVars, dateVars, txVars, callVars, partVars, generated>>

\* One more render, the profile noted when a result is being kept.
Rerender ==
    \E p \in Profiles :
        /\ FacturXDataToXml(p)
        /\ earlier' = IF earlier.result.op = "to_xml"
                      THEN [earlier EXCEPT !.between = @ \cup {p}]
                      ELSE earlier
        /\ UNCHANGED generated

NextRerender == Rerender \/ KeepResult
SpecRerender == InitRerender /\ [][NextRerender]_vars

(***************************************************************************)
(* Specification of concurrent rendering: each caller makes one to_xml     *)
(* call on the same graph; the calls' steps interleave freely.  A call     *)
(* renders the context and the document, then the delivery                 *)
(* (self._current_profile = profile), then the settlement (the same), and  *)
(* returns.                                                                *)
(***************************************************************************)
InitConcurrent ==
    /\ notes \in {None, Some(<<1>>)}
    /\ items \in {None, Some(<<1>>)}
    /\ delivery \in {EmptyDelivery,
                      [EmptyDelivery EXCEPT !.receiving_advice_referenced_document = Some(1)]}
    /\ settlement = EmptySettlement
    /\ deliveryProfile = None
    /\ settlementProfile = None
    /\ result = NoResult
    /\ calls = NoCalls
    /\ writers = NoWriters
    /\ IdleProfile /\ IdleMoney /\ IdleTx /\ IdleKept /\ IdleGenerator /\ IdleDate /\ IdlePart

CallFrame == <<notes, items, delivery, settlement, profileVars, moneyVars, dateVars, txVars, keptVars,
               partVars>>

\* data.to_xml("CrossIndustryInvoice", p) is entered by caller c.
BeginCall(c, p) ==
    /\ calls[c].pc = "idle"
    /\ calls' = [calls EXCEPT ![c] = [pc |-> "document", profile |-> Some(p)]]
    /\ UNCHANGED <<deliveryProfile, settlementProfile, result, writers, CallFrame>>

\* HeaderTradeDelivery.to_xml: self._current_profile = profile
WriteDeliveryProfile(c) ==
    /\ calls[c].pc = "document"
    /\ deliveryProfile' = calls[c].profile
    /\ writers' = [writers EXCEPT !["delivery._current_profile"] = @ \cup {c}]
    /\ calls' = [calls EXCEPT ![c].pc = "delivery"]
    /\ UNCHANGED <<settlementProfile, result, CallFrame>>

\* HeaderTradeSettlement.to_xml: self._current_profile = profile
WriteSettlementProfile(c) ==
    /\ calls[c].pc = "delivery"
    /\ settlementProfile' = calls[c].profile
    /\ writers' = [writers EXCEPT !["settlement._current_profile"] = @ \cup {c}]
    /\ calls' = [calls EXCEPT ![c].pc = "settlement"]
    /\ UNCHANGED <<deliveryProfile, result, CallFrame>>

\* return root
ReturnCall(c) ==
    /\ calls[c].pc = "settlement"
    /\ result' = FacturXDataToXmlResult(notes, items, delivery, settlement,
                                        Get(calls[c].profile))
    /\ calls' = [calls EXCEPT ![c].pc = "done"]
    /\ UNCHANGED <<deliveryProfile, settlementProfile, writers, CallFrame>>

Begin == \E c \in Callers : \E p \in Profiles : BeginCall(c, p)
RenderDelivery == \E c \in Callers : WriteDeliveryProfile(c)
RenderSettlement == \E c \in Callers : WriteSettlementProfile(c)
Return == \E c \in Callers : ReturnCall(c)

NextConcurrent == Begin \/ RenderDelivery \/ RenderSettlement \/ Return
SpecConcurrent == InitConcurrent /\ [][NextConcurrent]_vars

(***************************************************************************)
(* FacturXGenerator                                                        *)
(***************************************************************************)
MaxAsserts == 1

\* What the Schematron pass finds: whether the profile's XSLT file exists,
\* and the svrl:failed-assert and svrl:successful-report elements of the
\* transformation's output.
SchematronOutcomes ==
    [stylesheet : BOOLEAN, failed_asserts : SUBSET (1..MaxAsserts),
     reports : SUBSET (1..MaxAsserts)]

\* _parse_svrl_result: is_valid = not (failed_asserts or reports)
IsValid(o) == o.failed_asserts = {} /\ o.reports = {}

GenerateRaised(p, v, error, o) ==
    [op |-> "generate", profile |-> Some(p), validate_xslt |-> v,
     raised |-> TRUE, error |-> error, xml |-> None,
     failed_asserts |-> o.failed_asserts, reports |-> o.reports]
GenerateReturned(p, v, tree) ==
    [op |-> "generate", profile |-> Some(p), validate_xslt |-> v,
     raised |-> FALSE, error |-> "", xml |-> Some(tree),
     failed_asserts |-> {}, reports |-> {}]
NoFindings == [stylesheet |-> TRUE, failed_asserts |-> {}, reports |-> {}]

\* _validate_with_schematron: None when it returns, Some(exception) when it raises.
ValidateWithSchematron(o) ==
    IF ~o.stylesheet THEN Some("FileNotFoundError")
    ELSE IF ~IsValid(o) THEN Some("SchematronValidationError")
    ELSE None

\* FacturXGenerator.generate(data, p, v) when the Schematron pass would find o.
Generate(p, v, o) ==
    \/ /\ p = "EXTENDED"
       /\ generated' = GenerateRaised(p, v, "NotImplementedError", NoFindings)
       /\ UNCHANGED <<graphVars, profileVars, moneyVars, dateVars, txVars, callVars, partVars, earlier>>
    \/ /\ p # "EXTENDED"
       /\ FacturXDataToXml(p)
       /\ generated' =
            IF result'.raised THEN GenerateRaised(p, v, "ValueError", NoFindings)
            ELSE IF ~v THEN GenerateReturned(p, v, result'.tree)
            ELSE IF ~IsNone(ValidateWithSchematron(o))
            THEN GenerateRaised(p, v, Get(ValidateWithSchematron(o)),
                                IF o.stylesheet THEN o ELSE NoFindings)
            ELSE GenerateReturned(p, v, result'.tree)
       /\ UNCHANGED earlier

(***************************************************************************)
(* Specification of generation: a constructed graph is handed to the       *)
(* generator, with or without validation, any number of times.             *)
(***************************************************************************)
InitGenerator ==
    /\ notes \in {None, Some(<<1>>)}
    /\ items \in {None, Some(<<1>>)}
    /\ delivery = EmptyDelivery
    /\ settlement \in SettlementsWith(
            {None} \cup {Some(<<m>>) : m \in {x \in PaymentMeansValues :
                                                 x.payment_means_code = "CREDIT_CARD"}},
            {None})
    /\ deliveryProfile = None
    /\ settlementProfile = None
    /\ result = NoResult
    /\ generated = NotGenerated
    /\ IdleProfile /\ IdleMoney /\ IdleTx /\ IdleKept /\ IdleCalls /\ IdleDate /\ IdlePart

NextGenerator ==
    \E p \in Profiles : \E v \in BOOLEAN : \E o \in SchematronOutcomes : Generate(p, v, o)
SpecGenerator == InitGenerator /\ [][NextGenerator]_vars

(***************************************************************************)
(* Date-valued fields: a datetime is <<year, month, day, hour>>, a         *)
(* rendered text a sequence of decimal digits.                             *)
(***************************************************************************)
DateFields == {"issue_date_time", "tax_point_date", "start_date", "end_date",
               "due_date", "occurrence_date"}
Years == {1, 999, 1000, 1899, 1900, 1999, 2000, 2025, 2100, 2101}
Months == {1, 4, 12}
Days == {1, 25, 31}
Hours == {0, 13}

\* datetime(year, month, day, hour) exists.
IsDate(y, m, d) == d <= (IF m = 4 THEN 30 ELSE 31)
DateInputs ==
    {i \in [field : DateFields, year : Years, month : Months, day : Days, hour : Hours] :
        IsDate(i.year, i.month, i.day)}

DateTime(i) == <<i.year, i.month, i.day, i.hour>>
MIN_DATE == <<2000, 1, 1, 0>>
MAX_DATE == <<2100, 12, 31, 0>>
Earlier(a, b) ==
    \E k \in 1..4 : a[k] < b[k] /\ \A j \in 1..(k - 1) : a[j] = b[j]

\* The field validator of each date field: None when it accepts the value.
\* tax_point_date and due_date have none.
ValidateDate(i) ==
    IF i.field = "issue_date_time"
    THEN IF Earlier(DateTime(i), MIN_DATE) \/ Earlier(MAX_DATE, DateTime(i))
         THEN Some("Issue date must be between 2000-01-01 and 2100-12-31")
         ELSE None
    ELSE IF i.field \in {"start_date", "end_date", "occurrence_date"}
    THEN IF i.year < 1900 \/ i.year > 2100
         THEN Some("Date must be between years 1900 and 2100")
         ELSE None
    ELSE None

\* The wrapper element and the date-string element of each field.
DateWrapper(f) ==
    CASE f = "issue_date_time" -> "IssueDateTime"
      [] f = "tax_point_date" -> "TaxPointDate"
      [] f = "start_date" -> "StartDateTime"
      [] f = "end_date" -> "EndDateTime"
      [] f = "due_date" -> "DueDateDateTime"
      [] f = "occurrence_date" -> "OccurrenceDateTime"
DateStringElement(f) == IF f = "tax_point_date" THEN "DateString" ELSE "DateTimeString"

Two(n) == <<n \div 10, n % 10>>
Four(y) == <<y \div 1000, (y \div 100) % 10, (y \div 10) % 10, y % 10>>
RECURSIVE Decimal(_)
Decimal(n) == IF n < 10 THEN <<n>> ELSE Append(Decimal(n \div 10), n % 10)

\* value.strftime("%Y%m%d"): %m and %d are two digits; %Y is what the
\* platform's C library gives, four zero-padded digits or (glibc) the year's
\* decimal digits with no padding.
Strftime(i, pads) ==
    (IF pads THEN Four(i.year) ELSE Decimal(i.year)) \o Two(i.month) \o Two(i.day)

NoDateElement == [wrapper |-> "", element |-> "", format |-> "", text |-> <<>>]

\* The model holding the field is constructed with dateIn and rendered at a
\* profile that emits the field.
RenderDateField(pads) ==
    /\ ~IsNone(dateIn)
    /\ IsNone(dateOut)
    /\ dateOut' =
         IF ~IsNone(ValidateDate(Get(dateIn)))
         THEN Some([raised |-> TRUE, message |-> Get(ValidateDate(Get(dateIn))),
                    xml |-> NoDateElement])
         ELSE Some([raised |-> FALSE, message |-> "",
                    xml |-> [wrapper |-> DateWrapper(Get(dateIn).field),
                             element |-> DateStringElement(Get(dateIn).field),
                             format |-> "102",
                             text |-> Strftime(Get(dateIn), pads)]])
    /\ UNCHANGED <<dateIn, graphVars, profileVars, moneyVars, txVars, callVars, partVars, keptVars>>

InitDate ==
    /\ dateIn \in {Some(i) : i \in DateInputs}
    /\ dateOut = None
    /\ IdleGraph /\ IdleProfile /\ IdleMoney /\ IdleTx /\ IdleKept /\ IdleCalls /\ IdleGenerator /\ IdlePart

NextDate == \E pads \in BOOLEAN : RenderDateField(pads)
SpecDate == InitDate /\ [][NextDate]_vars

(***************************************************************************)
(* The profile wrappers FacturXMinimum, FacturXBasicWL, FacturXBasic and   *)
(* FacturXEN16931                                                          *)
(***************************************************************************)
Wrappers == {"FacturXMinimum", "FacturXBasicWL", "FacturXBasic", "FacturXEN16931"}

\* The profile each wrapper stands for.
WrapperProfile(w) ==
    CASE w = "FacturXMinimum" -> "MINIMUM"
      [] w = "FacturXBasicWL" -> "BASICWL"
      [] w = "FacturXBasic" -> "BASIC"
      [] w = "FacturXEN16931" -> "EN16931"

\* The element classes in use: every node's to_xml builds lxml elements,
\* FacturXMinimum.to_xml builds its root with xml.etree.ElementTree.
NodeElementClass == "lxml.etree._Element"
WrapperElementClass == "xml.etree.ElementTree.Element"

WrapperRaised(w, exception, at) ==
    [op |-> w, profile |-> Some(WrapperProfile(w)), raised |-> TRUE,
     message |-> exception, cause |-> at, tree |-> NoTree]

\* A Python call with a number of positional arguments other than the ones
\* the callee declares raises TypeError.
ArityMismatch(given, declared) == given # declared

\* FacturXMinimum.to_xml(): the root's tag is the string RSM followed by
\* "CrossIndustryInvoice", with the namespaces as xmlns:* attributes;
\* Element.append accepts elements of its own class only.
FacturXMinimumToXml(ns, its, d, st) ==
    IF NodeElementClass # WrapperElementClass
    THEN WrapperRaised("FacturXMinimum", "TypeError",
                       "root.append(self.exchanged_document_context.to_xml(...))")
    ELSE [FacturXDataToXmlResult(ns, its, d, st, "MINIMUM")
            EXCEPT !.op = "FacturXMinimum",
                   !.tree.tag = QName("", "rsmCrossIndustryInvoice"),
                   !.tree.nsmap = NoNsmap]

\* FacturXBasicWL.to_xml(): an f-string that calls
\* self.exchanged_document_context.to_xml() with neither element_name nor
\* profile.
FacturXBasicWLToXml(ns, its, d, st) ==
    IF ArityMismatch(0, 2)
    THEN WrapperRaised("FacturXBasicWL", "TypeError",
                       "self.exchanged_document_context.to_xml()")
    ELSE [FacturXDataToXmlResult(ns, its, d, st, "BASICWL") EXCEPT !.op = "FacturXBasicWL"]

\* FacturXBasic.to_xml(element_name, profile): super().to_xml(element_name,
\* profile), where FacturXBasicWL.to_xml declares no argument.
FacturXBasicToXml(w, ns, its, d, st) ==
    IF ArityMismatch(2, 0)
    THEN WrapperRaised(w, "TypeError", "super().to_xml(element_name, profile)")
    ELSE [FacturXBasicWLToXml(ns, its, d, st) EXCEPT !.op = w]

\* FacturXEN16931.to_xml(element_name, profile): super().to_xml(element_name,
\* profile), which is FacturXBasic.to_xml.
FacturXEN16931ToXml(ns, its, d, st) == FacturXBasicToXml("FacturXEN16931", ns, its, d, st)

\* w(...).to_xml() on a wrapper built from the graph's context, document and
\* transaction.
WrapperToXml(w) ==
    /\ result' = CASE w = "FacturXMinimum" ->
                        FacturXMinimumToXml(notes, items, delivery, settlement)
                    [] w = "FacturXBasicWL" ->
                        FacturXBasicWLToXml(notes, items, delivery, settlement)
                    [] w = "FacturXBasic" ->
                        FacturXBasicToXml("FacturXBasic", notes, items, delivery, settlement)
                    [] w = "FacturXEN16931" ->
                        FacturXEN16931ToXml(notes, items, delivery, settlement)
    /\ UNCHANGED <<notes, items, delivery, deliveryProfile, settlement, settlementProfile,
                   profileVars, moneyVars, dateVars, txVars, callVars, partVars, keptVars>>

(***************************************************************************)
(* Specification of the wrappers: the same graph is rendered through       *)
(* FacturXData and through the wrappers.                                   *)
(***************************************************************************)
InitWrapper ==
    /\ notes \in {None, Some(<<1>>)}
    /\ items \in {None, Some(<<1>>)}
    /\ delivery \in DeliveryValues
    /\ settlement = EmptySettlement
    /\ deliveryProfile = None
    /\ settlementProfile = None
    /\ result = NoResult
    /\ IdleProfile /\ IdleMoney /\ IdleExt

RenderWrapper == \E w \in Wrappers : WrapperToXml(w)

NextWrapper == Render \/ RenderWrapper
SpecWrapper == InitWrapper /\ [][NextWrapper]_vars

(***************************************************************************)
(* Assignment to a field of a constructed summation                        *)
(* (validate_assignment=True)                                              *)
(***************************************************************************)
MaxPresent == 1

OptionalAmountFields ==
    {"line_total_amount", "charge_total_amount", "allowance_total_amount",
     "tax_total_amount", "rounding_amount", "total_prepaid_amount"}
RequiredAmountFields ==
    {"tax_basis_total_amount", "grand_total_amount", "due_payable_amount"}

\* How many optional amounts a summation holds.
PresentAmounts(s) == Cardinality({f \in OptionalAmountFields : ~IsNone(s[f])})

\* summation.<f> = v: pydantic validates v, stores it in the instance's
\* __dict__ and then runs validate_amounts on the instance; when the
\* validator raises, the error reaches the caller and the value stays stored.
AssignAmount(f, v) ==
    LET new == [Get(summation) EXCEPT ![f] = v] IN
    /\ ~IsNone(summation)
    /\ PresentAmounts(new) <= MaxPresent
    /\ summation' = Some(new)
    /\ sumErr' = ValidateAmounts(new)
    /\ UNCHANGED <<sumIn, profileVars, graphVars, extVars, partVars>>

(***************************************************************************)
(* Specification of the summation's life: construction with the three      *)
(* required totals equal and no optional amount, then assignments.         *)
(***************************************************************************)
InitMoneyAssign ==
    /\ sumIn \in {s \in SummationInputs :
                    /\ PresentAmounts(s) = 0
                    /\ s.grand_total_amount = s.tax_basis_total_amount
                    /\ s.due_payable_amount = s.tax_basis_total_amount
                    /\ IsNone(ValidateAmounts(s))}
    /\ summation = Some(sumIn)
    /\ sumErr = None
    /\ IdleProfile /\ IdleGraph /\ IdleExt

AssignOptionalAmount ==
    \E f \in OptionalAmountFields : \E v \in OptionalAmounts : AssignAmount(f, v)
AssignRequiredAmount ==
    \E f \in RequiredAmountFields : \E v \in RequiredAmounts : AssignAmount(f, v)

NextMoneyAssign == AssignOptionalAmount \/ AssignRequiredAmount
SpecMoneyAssign == InitMoneyAssign /\ [][NextMoneyAssign]_vars

(***************************************************************************)
(* Specification of the transaction's life.                                *)
(***************************************************************************)
InitTx ==
    /\ txIn \in {Some(a) : a \in TransactionInputs}
    /\ txErr = None
    /\ IdleKept /\ IdleCalls /\ IdleGenerator /\ IdleGraph /\ IdleProfile /\ IdleMoney /\ IdleDate /\ IdlePart

ReassignLineItems == \E l \in TransactionInputs : ReassignItems(l)
AppendLineItem == \E id \in LineIds : AppendItem(id)
AssignLineItemId == \E i \in 1..MaxLineItems : \E id \in LineIds : AssignLineId(i, id)
RenderBuilt == \E p \in Profiles : RenderTransaction(p)

NextTx ==
    \/ ConstructTransaction
    \/ ReassignLineItems
    \/ AppendLineItem
    \/ AssignLineItemId
    \/ RenderBuilt
SpecTx == InitTx /\ [][NextTx]_vars

(***************************************************************************)
(* Specification of the profile comparisons: the operands are drawn from   *)
(* the five members and the four operators are applied to them.            *)
(***************************************************************************)
InitProfile ==
    /\ pa \in Profiles /\ pb \in Profiles /\ pc \in Profiles
    /\ cmp = NotCompared
    /\ IdleMoney /\ IdleGraph /\ IdleExt

CompareProfiles ==
    /\ cmp = NotCompared
    /\ cmp' = [ab |-> Some(Compare4(pa, pb)),
               bc |-> Some(Compare4(pb, pc)),
               ac |-> Some(Compare4(pa, pc))]
    /\ UNCHANGED <<pa, pb, pc, moneyVars, graphVars, extVars, partVars>>

NextProfile == CompareProfiles
SpecProfile == InitProfile /\ [][NextProfile]_vars

(***************************************************************************)
(* Specification of the summation's construction.                          *)
(***************************************************************************)
InitMoney ==
    /\ sumIn \in SummationInputs
    /\ summation = None /\ sumErr = None
    /\ IdleProfile /\ IdleGraph /\ IdleExt

NextMoney == ConstructSummation
SpecMoney == InitMoney /\ [][NextMoney]_vars

(***************************************************************************)
(* Claims on the profile order                                             *)
(***************************************************************************)
\* The fixed index 0..4 of the five levels, as the specification states it.
ProfileIndex(p) ==
    CASE p = "MINIMUM" -> 0
      [] p = "BASICWL" -> 1
      [] p = "BASIC" -> 2
      [] p = "EN16931" -> 3
      [] p = "EXTENDED" -> 4

Compared == ~IsNone(cmp.ab)
OneOf3(x, y, z) == (x /\ ~y /\ ~z) \/ (~x /\ y /\ ~z) \/ (~x /\ ~y /\ z)

\* C2: <, <=, >, >= form the strict total order MINIMUM < BASICWL < BASIC <
\* EN16931 < EXTENDED: exactly one of a < b, a == b, a > b holds, < is
\* transitive, <= and >= agree with < and >, and every result follows the fixed
\* index, not the lexical order of the URN strings.
C2_ProfileTotalOrder ==
    Compared =>
        LET ab == Get(cmp.ab)
            bc == Get(cmp.bc)
            ac == Get(cmp.ac)
        IN  /\ OneOf3(ab.lt, ab.eq, ab.gt)
            /\ ab.eq <=> (pa = pb)
            /\ (ab.lt /\ bc.lt) => ac.lt
            /\ (ab.gt /\ bc.gt) => ac.gt
            /\ ab.le <=> (ab.lt \/ ab.eq)
            /\ ab.ge <=> (ab.gt \/ ab.eq)
            /\ ab.lt <=> (ProfileIndex(pa) < ProfileIndex(pb))
            /\ ab.gt <=> (ProfileIndex(pa) > ProfileIndex(pb))
            /\ (pa = "BASIC" /\ pb = "EN16931") => (ab.lt /\ ~ab.strlt)
            /\ (pa = "EN16931" /\ pb = "BASIC") => (ab.gt /\ ab.strlt)

\* BASIC < EN16931 < EXTENDED was evaluated, although the URN of BASIC sorts
\* after the URN of EN16931.
C2_Witness ==
    /\ Compared
    /\ pa = "BASIC" /\ pb = "EN16931" /\ pc = "EXTENDED"
    /\ Get(cmp.ab).lt /\ Get(cmp.bc).lt /\ Get(cmp.ac).lt
    /\ ~Get(cmp.ab).strlt

(***************************************************************************)
(* Claims on the monetary rules                                            *)
(***************************************************************************)
Constructed == ~IsNone(summation)
ConstructionFailed == ~IsNone(sumErr)
\* An absent operand counts as 0.
Amt(o) == IF o = <<>> THEN 0 ELSE o[1]
Within(x, y) == x - y <= 2 /\ y - x <= 2
AllThreePresent(s) ==
    /\ s.line_total_amount # <<>>
    /\ s.charge_total_amount # <<>>
    /\ s.allowance_total_amount # <<>>
Rule1Holds(s) ==
    Within(s.tax_basis_total_amount,
           Amt(s.line_total_amount) + Amt(s.charge_total_amount) - Amt(s.allowance_total_amount))
Rule2Holds(s) ==
    Within(s.grand_total_amount,
           s.tax_basis_total_amount + Amt(s.tax_total_amount) + Amt(s.rounding_amount))
Rule3Holds(s) ==
    Within(s.due_payable_amount, s.grand_total_amount - Amt(s.total_prepaid_amount))
\* The declared total is at least the tolerance away from the computed one.
Off(x, y) == x - y >= 2 \/ y - x >= 2
Rule1Off(s) ==
    Off(s.tax_basis_total_amount,
        Amt(s.line_total_amount) + Amt(s.charge_total_amount) - Amt(s.allowance_total_amount))
Rule2Off(s) ==
    Off(s.grand_total_amount,
        s.tax_basis_total_amount + Amt(s.tax_total_amount) + Amt(s.rounding_amount))
Rule3Off(s) ==
    Off(s.due_payable_amount, s.grand_total_amount - Amt(s.total_prepaid_amount))
Rule1Message == "Tax basis total amount must equal: line total + charges - allowances"
Rule2Message == "Grand total must equal: tax basis + tax total + rounding amount"
Rule3Message == "Due payable amount must equal: grand total - prepaid amount"

\* C3: with line_total, charge_total and allowance_total all present the
\* constructor succeeds only if tax_basis_total is within the tolerance of
\* line_total + charge_total - allowance_total; with one of them absent rule 1
\* is not checked: construction never fails on rule 1, and fails only when the
\* total of rule 2 or of rule 3 is at least the tolerance away.
C3_Rule1OnlyWhenAllPresent ==
    /\ (Constructed /\ AllThreePresent(Get(summation))) => Rule1Holds(Get(summation))
    /\ (ConstructionFailed /\ ~AllThreePresent(sumIn)) => Get(sumErr).message # Rule1Message
    /\ (ConstructionFailed /\ ~AllThreePresent(sumIn)) => (Rule2Off(sumIn) \/ Rule3Off(sumIn))

\* A summation with an absent charge_total whose tax basis is far from the line
\* total was constructed.
C3_Witness ==
    /\ Constructed
    /\ Get(summation).line_total_amount = <<0>>
    /\ Get(summation).charge_total_amount = <<>>
    /\ Get(summation).tax_basis_total_amount = 4

\* C4: the constructor succeeds only if grand_total is within the tolerance of
\* tax_basis_total + tax_total + rounding_amount, an absent tax_total or
\* rounding_amount counting as 0, whatever fields are absent.
C4_Rule2Always ==
    /\ Constructed => Rule2Holds(Get(summation))
    /\ (ConstructionFailed /\ Get(sumErr).message = Rule2Message) => Rule2Off(sumIn)

\* A summation with absent tax_total and a rounding amount was constructed, and
\* rule 2 counted the rounding amount.
C4_Witness ==
    /\ Constructed
    /\ Get(summation).tax_total_amount = <<>>
    /\ Get(summation).rounding_amount = <<1>>
    /\ Get(summation).line_total_amount = <<>>
    /\ Get(summation).grand_total_amount = Get(summation).tax_basis_total_amount + 3

\* The summation of the monetary round-trip scenario, in cents.
RoundTripSummation ==
    [line_total_amount |-> <<10000>>, charge_total_amount |-> <<0>>,
     allowance_total_amount |-> <<0>>, tax_basis_total_amount |-> 10000,
     tax_total_amount |-> <<490>>, rounding_amount |-> <<0>>,
     grand_total_amount |-> 10490, total_prepaid_amount |-> <<0>>,
     due_payable_amount |-> 10490]

\* C5: the constructor succeeds only if due_payable is within the tolerance of
\* grand_total - total_prepaid, an absent total_prepaid counting as 0; the
\* round-trip summation is accepted with due_payable = 104.90 and rejected on
\* rule 3 with due_payable = 100.00.
C5_Rule3 ==
    /\ Constructed => Rule3Holds(Get(summation))
    /\ (ConstructionFailed /\ Get(sumErr).message = Rule3Message) => Rule3Off(sumIn)
    /\ ConstructionFailed =>
         /\ ValidateAmounts(RoundTripSummation) = None
         /\ ValidateAmounts([RoundTripSummation EXCEPT !.due_payable_amount = 10000]) # None
         /\ Get(ValidateAmounts([RoundTripSummation EXCEPT !.due_payable_amount = 10000])).message
              = Rule3Message

\* A summation with a prepaid amount was rejected on rule 3 although its
\* due_payable is within the tolerance of grand_total alone.
C5_Witness ==
    /\ ConstructionFailed
    /\ Get(sumErr).message = Rule3Message
    /\ sumIn.total_prepaid_amount = <<1>>
    /\ sumIn.grand_total_amount = 0
    /\ sumIn.due_payable_amount = 2

\* The message of the lowest-numbered rule that the input violates.
LowestViolatedMessage(s) ==
    IF AllThreePresent(s) /\ ~Rule1Holds(s) THEN Rule1Message
    ELSE IF ~Rule2Holds(s) THEN Rule2Message
    ELSE Rule3Message

\* The computed and the declared value of the rule a message names.
ComputedAndDeclared(s, m) ==
    IF m = Rule1Message
    THEN <<Amt(s.line_total_amount) + Amt(s.charge_total_amount) - Amt(s.allowance_total_amount),
           s.tax_basis_total_amount>>
    ELSE IF m = Rule2Message
    THEN <<s.tax_basis_total_amount + Amt(s.tax_total_amount) + Amt(s.rounding_amount),
           s.grand_total_amount>>
    ELSE <<s.grand_total_amount - Amt(s.total_prepaid_amount), s.due_payable_amount>>

RenderReturned == result.op = "to_xml" /\ ~result.raised
RenderProfile == Get(result.profile)
AtLeast(p, min) == ProfileIndex(p) >= ProfileIndex(min)

\* The children of a rendered element that carry a tag, and what they were
\* rendered from.
WithTag(children, tag) == SelectSeq(children, LAMBDA e : e.tag = tag)
IdsOf(children) == [i \in 1..Len(children) |-> children[i].id]
HasTag(children, tag) == \E i \in 1..Len(children) : children[i].tag = tag
ListOf(o) == IF o = <<>> THEN <<>> ELSE o[1]

C7_RenderLeavesGraphUnchanged ==
    [][Render => UNCHANGED <<notes, items, delivery, deliveryProfile,
                             settlement, settlementProfile>>]_vars

\* C8: to_xml of a constructed graph returns a complete tree at every profile
\* and raises nothing.
C8_RenderNeverRaises ==
    result.op = "to_xml" => (~result.raised /\ Len(result.tree.root) = 3)

\* C10: the children of the rendered transaction are the line items in the
\* caller's order iff profile >= BASIC, then one header agreement, one header
\* delivery and one header settlement, in this order at every profile.
C10_TransactionChildren ==
    RenderReturned =>
        result.tree.transaction =
            (IF AtLeast(RenderProfile, "BASIC")
             THEN [i \in 1..Len(ListOf(items)) |->
                     [tag |-> "IncludedSupplyChainTradeLineItem", id |-> ListOf(items)[i]]]
             ELSE <<>>)
            \o <<[tag |-> "ApplicableHeaderTradeAgreement", id |-> 0],
                 [tag |-> "ApplicableHeaderTradeDelivery", id |-> 0],
                 [tag |-> "ApplicableHeaderTradeSettlement", id |-> 0]>>

\* A transaction with the line items 2, 1 was rendered at BASIC: five children.
C10_Witness ==
    /\ RenderReturned
    /\ RenderProfile = "BASIC"
    /\ items = <<(<<2, 1>>)>>
    /\ Len(result.tree.transaction) = 5
    /\ result.tree.transaction[1].id = 2

(***************************************************************************)
(* Claims on the headers' life                                             *)
(***************************************************************************)
\* C9: no construction, render or assignment on a header fails because a field
\* that is legal only from BASICWL or EN16931 upward is populated: every
\* assignment of a value that is valid on its own succeeds, after a render at
\* MINIMUM as well as before it.
C9_UnderProfileFieldNeverAnError ==
    result.op \in {"assign_settlement", "assign_delivery"} => ~result.raised

(***************************************************************************)
(* Claims on the transaction                                               *)
(***************************************************************************)
\* C11: no document is produced at profile BASIC, EN16931 or EXTENDED from a
\* transaction whose line-item list is absent or empty.
C11_NoDocumentWithoutLineItems ==
    (RenderReturned /\ AtLeast(RenderProfile, "BASIC")) => ListOf(items) # <<>>

HasDuplicateLineId(l) == \E i, j \in 1..Len(l) : i # j /\ l[i] = l[j]
ConstructionAttempted == ~IsNone(txIn) /\ result.op # "none"

\* C12: constructing a transaction fails with the duplicate-line-ID error if
\* and only if two of its line items, adjacent or not, have the same line_id;
\* a list of pairwise distinct line_ids is constructed.
C12_DuplicateLineIdRejected ==
    ConstructionAttempted =>
        /\ (txErr = <<"Duplicate line ID">>) <=> HasDuplicateLineId(ListOf(txIn[1]))
        /\ (txErr = <<>>) <=> ~HasDuplicateLineId(ListOf(txIn[1]))

\* The line_ids 1, 2, 1 were passed and the constructor raised.
C12_Witness ==
    /\ ConstructionAttempted
    /\ txIn = <<(<<(<<1, 2, 1>>)>>)>>
    /\ txErr = <<"Duplicate line ID">>

\* C20: after construction and any sequence of mutations (reassigning the
\* list, appending to it in place, assigning a line item's line_id), every
\* render at profile >= BASIC emits pairwise distinct LineID values.
C20_RenderedLineIdsUnique ==
    (RenderReturned /\ AtLeast(RenderProfile, "BASIC")) =>
        ~HasDuplicateLineId(
            IdsOf(WithTag(result.tree.transaction, "IncludedSupplyChainTradeLineItem")))

(***************************************************************************)
(* Claims on the document root                                             *)
(***************************************************************************)
\* C13: FacturXData.to_xml("CrossIndustryInvoice", profile) returns a root
\* named CrossIndustryInvoice in the rsm namespace that declares the five
\* namespaces rsm, ram, qdt, udt, xsi with their URIs and has exactly the
\* children ExchangedDocumentContext, ExchangedDocument,
\* SupplyChainTradeTransaction, in this order, at every profile.
C13_RootElement ==
    RenderReturned =>
        /\ result.tree.tag.name = "CrossIndustryInvoice"
        /\ result.tree.tag.ns = "urn:un:unece:uncefact:data:standard:CrossIndustryInvoice:100"
        /\ DOMAIN result.tree.nsmap = {"rsm", "ram", "qdt", "udt", "xsi"}
        /\ result.tree.nsmap["rsm"] = "urn:un:unece:uncefact:data:standard:CrossIndustryInvoice:100"
        /\ result.tree.nsmap["ram"] =
             "urn:un:unece:uncefact:data:standard:ReusableAggregateBusinessInformationEntity:100"
        /\ result.tree.nsmap["qdt"] = "urn:un:unece:uncefact:data:standard:QualifiedDataType:100"
        /\ result.tree.nsmap["udt"] = "urn:un:unece:uncefact:data:standard:UnqualifiedDataType:100"
        /\ result.tree.nsmap["xsi"] = "http://www.w3.org/2001/XMLSchema-instance"
        /\ IdsOf(result.tree.root) = <<0, 0, 0>>
        /\ [i \in 1..Len(result.tree.root) |-> result.tree.root[i].tag]
             = <<"ExchangedDocumentContext", "ExchangedDocument", "SupplyChainTradeTransaction">>

\* A graph with notes and line items was rendered at EXTENDED and the root
\* has its three children.
C13_Witness ==
    /\ RenderReturned
    /\ RenderProfile = "EXTENDED"
    /\ notes # <<>> /\ items # <<>>
    /\ Len(result.tree.root) = 3
    /\ result.tree.tag.name = "CrossIndustryInvoice"

InProgress(c) == calls[c].pc \notin {"idle", "done"}

\* C15: concurrent render calls share no mutable state: no call writes a
\* location that another call in progress reads or writes, other than its own
\* output tree.
C15_NoSharedWrites ==
    \A l \in Locations : \A c1, c2 \in Callers :
        (c1 \in writers[l] /\ c2 \in writers[l] /\ InProgress(c1) /\ InProgress(c2))
        => c1 = c2

(***************************************************************************)
(* Claims on the generator                                                 *)
(***************************************************************************)
\* C16: when generate is called with validation enabled and the Schematron
\* pass reports failed assertions, the caller still obtains the generated XML
\* together with the diagnostics.
C16_ValidationAdvisory ==
    (generated.op = "generate" /\ generated.validate_xslt
        /\ generated.failed_asserts # {})
    => ~IsNone(generated.xml)

(***************************************************************************)
(* Claims on dates                                                         *)
(***************************************************************************)
DateRendered == ~IsNone(dateOut) /\ ~dateOut[1].raised

\* C17: every date-valued field that is emitted is a wrapper element holding
\* one date-string element whose format attribute is "102" and whose text is
\* the 8 digits YYYYMMDD of the calendar date, with no time-of-day part.
C17_DateFormat ==
    DateRendered =>
        LET i == dateIn[1]
            x == dateOut[1].xml
        IN  /\ x.wrapper # ""
            /\ x.element \in {"DateTimeString", "DateString"}
            /\ x.format = "102"
            /\ Len(x.text) = 8
            /\ x.text = <<i.year \div 1000, (i.year \div 100) % 10, (i.year \div 10) % 10,
                          i.year % 10, i.month \div 10, i.month % 10,
                          i.day \div 10, i.day % 10>>

(***************************************************************************)
(* Claims on the profile wrappers                                          *)
(***************************************************************************)
WrapperProfileOf(w) ==
    IF w = "FacturXMinimum" THEN "MINIMUM"
    ELSE IF w = "FacturXBasicWL" THEN "BASICWL"
    ELSE IF w = "FacturXBasic" THEN "BASIC"
    ELSE "EN16931"

\* C18: to_xml() of FacturXMinimum, FacturXBasicWL, FacturXBasic and
\* FacturXEN16931 returns without error the tree that
\* FacturXData.to_xml("CrossIndustryInvoice", P) returns for the wrapper's
\* profile P on the same context, document and transaction.
C18_WrapperEquivalent ==
    result.op \in {"FacturXMinimum", "FacturXBasicWL", "FacturXBasic", "FacturXEN16931"} =>
        /\ ~result.raised
        /\ result.tree.tag.name = "CrossIndustryInvoice"
        /\ result.tree = FacturXDataToXmlResult(notes, items, delivery, settlement,
                                                WrapperProfileOf(result.op)).tree

(***************************************************************************)
(* Claims on the summation's life                                          *)
(***************************************************************************)
\* C19: after construction and any sequence of field assignments, accepted or
\* rejected, the values stored in the summation satisfy rule 1 (when
\* applicable), rule 2 and rule 3.
C19_StoredAmountsReconcile ==
    ~IsNone(summation) =>
        /\ AllThreePresent(summation[1]) => Rule1Holds(summation[1])
        /\ Rule2Holds(summation[1])
        /\ Rule3Holds(summation[1])

(***************************************************************************)
(* Calls on one object of the graph taken on its own.  The call returns    *)
(* the children of the element it built, or raises.                        *)
(***************************************************************************)
Txt(tag, text) == [tag |-> tag, text |-> text]
PartReturned(op, p, children) ==
    Some([op |-> op, profile |-> p, raised |-> FALSE, exception |-> "", message |-> "",
          children |-> children])
PartRaised(op, p, exception, message) ==
    Some([op |-> op, profile |-> p, raised |-> TRUE, exception |-> exception,
          message |-> message, children |-> <<>>])

(***************************************************************************)
(* TradeSettlementHeaderMonetarySummation.to_xml                           *)
(***************************************************************************)
\* f"{x:.2f}" of an amount of c cents: sign, units and hundredths.
Format2f(c) == [negative |-> c < 0, units |-> Abs(c) \div 100, hundredths |-> Abs(c) % 100]

\* if <field> is not None: ET.SubElement(root, tag).text = f"{<field>:.2f}"
SubElementIfNotNone(root, field, tag) ==
    IF ~IsNone(field) THEN Append(root, Txt(tag, Format2f(Get(field)))) ELSE root

SummationToXml(s, p) ==
    LET r1 == IF ProfileGe(p, "BASICWL")
              THEN SubElementIfNotNone(
                       SubElementIfNotNone(
                           SubElementIfNotNone(<<>>, s.line_total_amount, "LineTotalAmount"),
                           s.charge_total_amount, "ChargeTotalAmount"),
                       s.allowance_total_amount, "AllowanceTotalAmount")
              ELSE <<>>
        r2 == Append(r1, Txt("TaxBasisTotalAmount", Format2f(s.tax_basis_total_amount)))
        r3 == SubElementIfNotNone(r2, s.tax_total_amount, "TaxTotalAmount")
        r4 == IF ProfileGe(p, "EN16931")
              THEN SubElementIfNotNone(r3, s.rounding_amount, "RoundingAmount")
              ELSE r3
        r5 == Append(r4, Txt("GrandTotalAmount", Format2f(s.grand_total_amount)))
        r6 == IF ProfileGe(p, "BASICWL")
              THEN SubElementIfNotNone(r5, s.total_prepaid_amount, "TotalPrepaidAmount")
              ELSE r5
    IN Append(r6, Txt("DuePayableAmount", Format2f(s.due_payable_amount)))

\* summation.to_xml("SpecifiedTradeSettlementHeaderMonetarySummation", p)
RenderSummation(p) ==
    /\ ~IsNone(summation)
    /\ partOut' = PartReturned("to_xml", Some(p), SummationToXml(Get(summation), p))
    /\ UNCHANGED <<part, moneyVars, profileVars, graphVars, extVars>>

(***************************************************************************)
(* Specification of the summation's rendering: a summation the constructor *)
(* accepted is rendered at any profiles.                                   *)
(***************************************************************************)
MaxRendered == 3
RenderedOptional == {None, Some(0), Some(MaxRendered)}
RenderedRequired == {0, MaxRendered, 2 * MaxRendered}
RenderedSummations ==
    {s \in [line_total_amount : RenderedOptional,
            charge_total_amount : RenderedOptional,
            allowance_total_amount : RenderedOptional,
            tax_basis_total_amount : RenderedRequired,
            tax_total_amount : RenderedOptional,
            rounding_amount : RenderedOptional,
            grand_total_amount : RenderedRequired,
            total_prepaid_amount : RenderedOptional,
            due_payable_amount : RenderedRequired] : IsNone(ValidateAmounts(s))}

InitMoneyRender ==
    /\ sumIn \in RenderedSummations
    /\ summation = Some(sumIn) /\ sumErr = None
    /\ part = None /\ partOut = None
    /\ IdleProfile /\ IdleGraph /\ IdleTx /\ IdleKept /\ IdleCalls /\ IdleGenerator /\ IdleDate

NextMoneyRender == \E p \in Profiles : RenderSummation(p)
SpecMoneyRender == InitMoneyRender /\ [][NextMoneyRender]_vars

(***************************************************************************)
(* Claims on the rendered summation                                        *)
(***************************************************************************)
SummationRendered == partOut # <<>> /\ summation # <<>> /\ partOut[1].op = "to_xml"
EmittedTags == {partOut[1].children[i].tag : i \in 1..Len(partOut[1].children)}
\* The amount, in cents, an emitted element shows; 0 for one that was not emitted.
ShownAmount(tag) ==
    IF tag \in EmittedTags
    THEN LET e == CHOOSE x \in {partOut[1].children[i] : i \in 1..Len(partOut[1].children)} :
                      x.tag = tag
         IN (IF e.text.negative THEN -1 ELSE 1) * (100 * e.text.units + e.text.hundredths)
    ELSE 0

\* C21: the rendered summation follows the field table: LineTotalAmount,
\* ChargeTotalAmount and AllowanceTotalAmount are emitted iff present and the
\* profile is at least BASICWL, RoundingAmount iff present and the profile is at
\* least EN16931, TaxTotalAmount and TotalPrepaidAmount iff present, at every
\* profile, and the three required totals always.
C21_SummationFieldTable ==
    SummationRendered =>
        LET s == summation[1]
            p == partOut[1].profile[1]
        IN /\ ("LineTotalAmount" \in EmittedTags)
                  <=> (s.line_total_amount # <<>> /\ AtLeast(p, "BASICWL"))
           /\ ("ChargeTotalAmount" \in EmittedTags)
                  <=> (s.charge_total_amount # <<>> /\ AtLeast(p, "BASICWL"))
           /\ ("AllowanceTotalAmount" \in EmittedTags)
                  <=> (s.allowance_total_amount # <<>> /\ AtLeast(p, "BASICWL"))
           /\ ("RoundingAmount" \in EmittedTags)
                  <=> (s.rounding_amount # <<>> /\ AtLeast(p, "EN16931"))
           /\ ("TaxTotalAmount" \in EmittedTags) <=> (s.tax_total_amount # <<>>)
           /\ ("TotalPrepaidAmount" \in EmittedTags) <=> (s.total_prepaid_amount # <<>>)
           /\ {"TaxBasisTotalAmount", "GrandTotalAmount", "DuePayableAmount"} \subseteq EmittedTags

\* C22: the amounts of the elements emitted for an accepted summation satisfy
\* rule 2 and rule 3 within the tolerance, an element that was not emitted
\* counting as 0, at every profile.
C22_RenderedTotalsReconcile ==
    SummationRendered =>
        /\ Within(ShownAmount("GrandTotalAmount"),
                  ShownAmount("TaxBasisTotalAmount") + ShownAmount("TaxTotalAmount")
                      + ShownAmount("RoundingAmount"))
        /\ Within(ShownAmount("DuePayableAmount"),
                  ShownAmount("GrandTotalAmount") - ShownAmount("TotalPrepaidAmount"))

(***************************************************************************)
(* ExchangedDocumentContext, and FacturXData with its context              *)
(***************************************************************************)
BusinessProcessIds == {None, Some("A1")}

\* The contexts a caller may construct: validate_business_process_id and
\* validate_guideline accept every one of them.
Contexts ==
    [class : {"ExchangedDocumentContext"},
     business_process_specified_document_context_parameter : BusinessProcessIds,
     guideline_specified_document_context_parameter : Profiles]

\* hasattr(self.exchanged_document, 'profile'): ExchangedDocument declares no
\* field of that name and forbids extra ones.
DocumentHasProfile == FALSE

\* FacturXData.validate_profile_consistency: None when it returns self.
ValidateProfileConsistency(context, documentProfile) ==
    IF DocumentHasProfile /\ documentProfile # context.guideline_specified_document_context_parameter
    THEN Some("Profile mismatch between context and document")
    ELSE None

\* ExchangedDocumentContext.to_xml: id_elem.text = profile.value
ExchangedDocumentContextToXml(context, p) ==
    LET r1 == IF ~IsNone(context.business_process_specified_document_context_parameter)
              THEN <<Txt("BusinessProcessSpecifiedDocumentContextParameter",
                         Get(context.business_process_specified_document_context_parameter))>>
              ELSE <<>>
    IN Append(r1, Txt("GuidelineSpecifiedDocumentContextParameter", Value(p)))

\* data.to_xml("CrossIndustryInvoice", p) on a FacturXData whose context is
\* part: the context is rendered first, with the p of the call.
FacturXDataToXmlWithContext(p) ==
    /\ ~IsNone(part)
    /\ Get(part).class = "ExchangedDocumentContext"
    /\ partOut' = PartReturned("to_xml", Some(p), ExchangedDocumentContextToXml(Get(part), p))
    /\ result' = FacturXDataToXmlResult(notes, items, delivery, settlement, p)
    /\ deliveryProfile' = Some(p)
    /\ settlementProfile' = Some(p)
    /\ UNCHANGED <<part, notes, items, delivery, settlement, profileVars, moneyVars,
                   dateVars, txVars, callVars, keptVars>>

\* data.exchanged_document_context.guideline_specified_document_context_parameter = q
AssignGuideline(q) ==
    /\ ~IsNone(part)
    /\ Get(part).class = "ExchangedDocumentContext"
    /\ part' = Some([Get(part) EXCEPT !.guideline_specified_document_context_parameter = q])
    /\ UNCHANGED <<partOut, graphVars, profileVars, moneyVars, dateVars, txVars, callVars, keptVars>>

(***************************************************************************)
(* Specification of a document with its context: the FacturXData is        *)
(* constructed, its context's guideline may be reassigned, and it is       *)
(* rendered at any profiles.                                               *)
(***************************************************************************)
InitContext ==
    /\ part \in {Some(c) : c \in {x \in Contexts : IsNone(ValidateProfileConsistency(x, None))}}
    /\ partOut = None
    /\ notes \in {None, Some(<<1>>)}
    /\ items \in {None, Some(<<1>>)}
    /\ delivery = EmptyDelivery
    /\ settlement = EmptySettlement
    /\ deliveryProfile = None
    /\ settlementProfile = None
    /\ result = NoResult
    /\ IdleProfile /\ IdleMoney /\ IdleTx /\ IdleKept /\ IdleCalls /\ IdleGenerator /\ IdleDate

RenderWithContext == \E p \in Profiles : FacturXDataToXmlWithContext(p)
ReassignGuideline == \E q \in Profiles : AssignGuideline(q)

NextContext == RenderWithContext \/ ReassignGuideline
SpecContext == InitContext /\ [][NextContext]_vars

(***************************************************************************)
(* Claims on the context                                                   *)
(***************************************************************************)
DocumentProduced ==
    /\ part # <<>> /\ partOut # <<>>
    /\ part[1].class = "ExchangedDocumentContext"
    /\ result.op = "to_xml" /\ ~result.raised
WrittenGuideline ==
    LET cs == partOut[1].children
    IN (CHOOSE e \in {cs[i] : i \in 1..Len(cs)} :
            e.tag = "GuidelineSpecifiedDocumentContextParameter").text

\* C23: in every document FacturXData produces, the URN written in
\* GuidelineSpecifiedDocumentContextParameter/ID is the value of the profile
\* its context declares, so is the profile the gating used; a call whose
\* profile differs from the context's produces no document.  Stated on the
\* steps that render, since the declared profile may be reassigned later.
C23_GuidelineIsContextProfile ==
    [][RenderWithContext =>
          (~result'.raised =>
              /\ WrittenGuideline' = Value(part[1].guideline_specified_document_context_parameter)
              /\ result'.profile = Some(part[1].guideline_specified_document_context_parameter))]_vars

(***************************************************************************)
(* TradeTax                                                                *)
(***************************************************************************)
\* Optional[float] values in hundredths: absent, zero, non-zero.
TaxAmounts == {None, Some(0), Some(1950)}
TaxTexts == {None, Some("Exempt")}

TradeTaxes ==
    [class : {"TradeTax"},
     calculated_amount : TaxAmounts,
     exemption_reason : TaxTexts,
     basis_amount : TaxAmounts,
     exemption_reason_code : Present,
     tax_point_date : Present,
     due_date_type_code : Present,
     rate_applicable_percent : TaxAmounts]

\* Python's truth value of an Optional[float]: None and 0.0 are both false.
Truthy(o) == ~IsNone(o) /\ Get(o) # 0

\* str(x) of a float of c hundredths: the units and the shortest fraction.
StrFloat(c) ==
    [units |-> c \div 100,
     fraction |-> IF c % 100 = 0 THEN <<0>>
                  ELSE IF c % 10 = 0 THEN <<(c % 100) \div 10>>
                  ELSE <<(c % 100) \div 10, c % 10>>]

\* if self.<field>: ET.SubElement(root, tag).text = str(self.<field>)
SubElementIfTruthy(root, field, tag) ==
    IF Truthy(field) THEN Append(root, Txt(tag, StrFloat(Get(field)))) ELSE root

\* TradeTax.to_xml
TradeTaxToXml(t, p) ==
    LET r1 == SubElementIfTruthy(<<>>, t.calculated_amount, "CalculatedAmount")
        r2 == Append(r1, Txt("TypeCode", "VAT"))
        r3 == IF ~IsNone(t.exemption_reason)
              THEN Append(r2, Txt("ExemptionReason", Get(t.exemption_reason))) ELSE r2
        r4 == SubElementIfTruthy(r3, t.basis_amount, "BasisAmount")
        r5 == Append(r4, Txt("CategoryCode", "S"))
        r6 == IF ~IsNone(t.exemption_reason_code)
              THEN Append(r5, Txt("ExemptionReasonCode", "code")) ELSE r5
        r7 == IF ProfileGe(p, "EN16931") /\ ~IsNone(t.tax_point_date)
              THEN Append(r6, Txt("TaxPointDate", "date")) ELSE r6
        r8 == IF ~IsNone(t.due_date_type_code)
              THEN Append(r7, Txt("DueDateTypeCode", "code")) ELSE r7
    IN SubElementIfTruthy(r8, t.rate_applicable_percent, "RateApplicablePercent")

\* tax.to_xml("ApplicableTradeTax", p)
RenderTradeTax(p) ==
    /\ ~IsNone(part)
    /\ Get(part).class = "TradeTax"
    /\ partOut' = PartReturned("to_xml", Some(p), TradeTaxToXml(Get(part), p))
    /\ UNCHANGED <<part, graphVars, profileVars, moneyVars, dateVars, txVars, callVars, keptVars>>

(***************************************************************************)
(* Specification of one TradeTax rendered at any profiles.                 *)
(***************************************************************************)
InitTradeTax ==
    /\ part \in {Some(t) : t \in TradeTaxes}
    /\ partOut = None
    /\ IdleGraph /\ IdleProfile /\ IdleMoney /\ IdleTx /\ IdleKept /\ IdleCalls
    /\ IdleGenerator /\ IdleDate

NextTradeTax == \E p \in Profiles : RenderTradeTax(p)
SpecTradeTax == InitTradeTax /\ [][NextTradeTax]_vars

(***************************************************************************)
(* Claims on single objects                                                *)
(***************************************************************************)
PartRendered(class) ==
    /\ part # <<>> /\ partOut # <<>>
    /\ part[1].class = class
    /\ partOut[1].op = "to_xml" /\ ~partOut[1].raised
PartTags == {partOut[1].children[i].tag : i \in 1..Len(partOut[1].children)}

\* C24: a TradeTax whose calculated_amount, basis_amount or
\* rate_applicable_percent is present, zero included, renders the
\* CalculatedAmount, BasisAmount or RateApplicablePercent element, at every
\* profile.
C24_ZeroIsEmitted ==
    PartRendered("TradeTax") =>
        /\ part[1].calculated_amount # <<>> => "CalculatedAmount" \in PartTags
        /\ part[1].basis_amount # <<>> => "BasisAmount" \in PartTags
        /\ part[1].rate_applicable_percent # <<>> => "RateApplicablePercent" \in PartTags

(***************************************************************************)
(* LegalOrganization.  Strings are sequences of character codes.           *)
(***************************************************************************)
OrganizationStrings == {<<65, 67, 77, 69>>, <<32, 66>>, <<66, 101>>, <<65, 38, 66>>, <<32>>}

\* str_strip_whitespace=True
RECURSIVE StripLeft(_)
StripLeft(v) == IF v # <<>> /\ Head(v) = 32 THEN StripLeft(Tail(v)) ELSE v
RECURSIVE StripRight(_)
StripRight(v) ==
    IF v # <<>> /\ v[Len(v)] = 32 THEN StripRight(SubSeq(v, 1, Len(v) - 1)) ELSE v
Strip(v) == StripRight(StripLeft(v))

\* The string constraints of model_config and of Field: None when the value
\* passes, Some(message) when pydantic rejects it.
ValidateOrganizationString(o) ==
    IF IsNone(o) THEN None
    ELSE IF Len(Strip(Get(o))) < 1 THEN Some("String should have at least 1 character")
    ELSE None

\* validate_trading_name, on the stripped value
ValidateTradingName(o) ==
    IF IsNone(o) THEN None
    ELSE IF Strip(Get(o)) = <<>>
    THEN Some("Trading business name cannot be empty when provided")
    ELSE IF \E i \in 1..Len(Get(o)) : Get(o)[i] \in {60, 62, 38}
    THEN Some("Trading business name contains invalid XML characters")
    ELSE None

Stripped(o) == IF IsNone(o) THEN None ELSE Some(Strip(Get(o)))

LegalOrganizations ==
    {[class |-> "LegalOrganization", id |-> Stripped(i), trading_business_name |-> Stripped(n)] :
        i \in {x \in {None} \cup {Some(v) : v \in OrganizationStrings} :
                   IsNone(ValidateOrganizationString(x))},
        n \in {x \in {None} \cup {Some(v) : v \in OrganizationStrings} :
                   IsNone(ValidateOrganizationString(x)) /\ IsNone(ValidateTradingName(x))}}

\* LegalOrganization.to_xml; the text of an element is None or a string.
LegalOrganizationToXml(org, p) ==
    LET r1 == IF ~IsNone(org.id) /\ Get(org.id) # <<>>
              THEN <<Txt("ID", org.id)>> ELSE <<>>
    IN IF ProfileGe(p, "EN16931")
       THEN Append(r1, Txt("TradingBusinessName", org.trading_business_name))
       ELSE r1

\* org.to_xml("SpecifiedLegalOrganization", p)
RenderLegalOrganization(p) ==
    /\ ~IsNone(part)
    /\ Get(part).class = "LegalOrganization"
    /\ partOut' = PartReturned("to_xml", Some(p), LegalOrganizationToXml(Get(part), p))
    /\ UNCHANGED <<part, graphVars, profileVars, moneyVars, dateVars, txVars, callVars, keptVars>>

\* org.id = v and org.trading_business_name = v (validate_assignment=True): a
\* value the field's validation rejects is not stored.
AssignOrganizationField(f, v) ==
    LET e == IF ~IsNone(ValidateOrganizationString(v)) THEN ValidateOrganizationString(v)
             ELSE IF f = "trading_business_name" THEN ValidateTradingName(v)
             ELSE None
    IN /\ ~IsNone(part)
       /\ Get(part).class = "LegalOrganization"
       /\ IF IsNone(e)
          THEN /\ part' = Some([Get(part) EXCEPT ![f] = Stripped(v)])
               /\ partOut' = PartReturned("setattr", None, <<>>)
          ELSE /\ part' = part
               /\ partOut' = PartRaised("setattr", None, "ValidationError", Get(e))
       /\ UNCHANGED <<graphVars, profileVars, moneyVars, dateVars, txVars, callVars, keptVars>>

(***************************************************************************)
(* Specification of one LegalOrganization: constructed, assigned to and    *)
(* rendered at any profiles.                                               *)
(***************************************************************************)
InitLegalOrganization ==
    /\ part \in {Some(o) : o \in LegalOrganizations}
    /\ partOut = None
    /\ IdleGraph /\ IdleProfile /\ IdleMoney /\ IdleTx /\ IdleKept /\ IdleCalls
    /\ IdleGenerator /\ IdleDate

AssignOrganization ==
    \E f \in {"id", "trading_business_name"} :
        \E v \in {None} \cup {Some(x) : x \in OrganizationStrings} : AssignOrganizationField(f, v)
RenderOrganization == \E p \in Profiles : RenderLegalOrganization(p)

NextLegalOrganization == AssignOrganization \/ RenderOrganization
SpecLegalOrganization == InitLegalOrganization /\ [][NextLegalOrganization]_vars

\* C25: a LegalOrganization renders a TradingBusinessName child iff its
\* trading_business_name is present and the profile is at least EN16931; an
\* absent name renders no child at any profile.
C25_AbsentNameNotEmitted ==
    PartRendered("LegalOrganization") =>
        (("TradingBusinessName" \in PartTags)
            <=> (part[1].trading_business_name # <<>>
                    /\ AtLeast(partOut[1].profile[1], "EN16931")))

(***************************************************************************)
(* Claims on the order of the settlement's children                        *)
(***************************************************************************)
\* The values of HeaderTradeSettlement.XML_ELEMENTS, in the order of the table.
XML_ELEMENTS ==
    <<"CreditorReferenceID", "PaymentReference", "TaxCurrencyCode", "InvoiceCurrencyCode",
      "PayeeTradeParty", "SpecifiedTradeSettlementPaymentMeans", "ApplicableTradeTax",
      "BillingSpecifiedPeriod", "SpecifiedTradeAllowanceCharge", "SpecifiedTradePaymentTerms",
      "SpecifiedTradeSettlementHeaderMonetarySummation", "InvoiceReferencedDocument",
      "ReceivableSpecifiedTradeAccountingAccount">>
TablePosition(tag) == CHOOSE i \in 1..Len(XML_ELEMENTS) : XML_ELEMENTS[i] = tag

\* C26: the children of a rendered HeaderTradeSettlement are in the order of
\* XML_ELEMENTS: of any two emitted children, the one listed earlier in the
\* table comes first, at every profile and for every combination of fields.
C26_SettlementChildrenInTableOrder ==
    RenderReturned =>
        LET cs == result.tree.settlement
        IN \A i, j \in 1..Len(cs) :
              i < j => TablePosition(cs[i].tag) <= TablePosition(cs[j].tag)

(***************************************************************************)
(* The amounts as Python floats (IEEE 754 binary64, round to nearest,      *)
(* ties to even).  A magnitude is a natural number of units of             *)
(* 2^-FractionBits, written as its binary digits, least significant        *)
(* first, with no leading zero; a float is a sign and a magnitude with at  *)
(* most MantissaBits significant digits.  A non-zero amount is at least    *)
(* 0.01 > 2^-7, so its float is a whole number of units.                   *)
(***************************************************************************)
MantissaBits == 53
FractionBits == 60

RECURSIVE Zeros(_)
Zeros(n) == IF n = 0 THEN <<>> ELSE <<0>> \o Zeros(n - 1)

\* Drop the leading zeros (the digits at the end of the sequence).
RECURSIVE Canonical(_)
Canonical(a) ==
    IF a # <<>> /\ a[Len(a)] = 0 THEN Canonical(SubSeq(a, 1, Len(a) - 1)) ELSE a

RECURSIVE BigAddCarry(_, _, _)
BigAddCarry(a, b, c) ==
    IF a = <<>> /\ b = <<>> THEN (IF c = 1 THEN <<1>> ELSE <<>>)
    ELSE LET x == IF a = <<>> THEN 0 ELSE Head(a)
             y == IF b = <<>> THEN 0 ELSE Head(b)
             s == x + y + c
         IN <<s % 2>> \o BigAddCarry(IF a = <<>> THEN <<>> ELSE Tail(a),
                                     IF b = <<>> THEN <<>> ELSE Tail(b), s \div 2)
BigAdd(a, b) == BigAddCarry(a, b, 0)

\* a - b for a >= b
RECURSIVE BigSubBorrow(_, _, _)
BigSubBorrow(a, b, c) ==
    IF a = <<>> THEN <<>>
    ELSE LET y == IF b = <<>> THEN 0 ELSE Head(b)
             d == Head(a) - y - c
         IN <<d % 2>> \o BigSubBorrow(Tail(a), IF b = <<>> THEN <<>> ELSE Tail(b),
                                      IF d < 0 THEN 1 ELSE 0)
BigSub(a, b) == Canonical(BigSubBorrow(a, b, 0))

\* a < b
RECURSIVE BigLess(_, _)
BigLess(a, b) ==
    IF Len(a) # Len(b) THEN Len(a) < Len(b)
    ELSE IF a = <<>> THEN FALSE
    ELSE IF a[Len(a)] # b[Len(b)] THEN a[Len(a)] < b[Len(b)]
    ELSE BigLess(Canonical(SubSeq(a, 1, Len(a) - 1)),
                 Canonical(SubSeq(b, 1, Len(b) - 1)))

\* Round a magnitude to MantissaBits significant digits; sticky tells that the
\* exact value is above the magnitude given.
RoundToNearestEven(a, sticky) ==
    IF Len(a) <= MantissaBits THEN a
    ELSE LET k == Len(a) - MantissaBits
             kept == SubSeq(a, k + 1, Len(a))
             below == sticky \/ \E i \in 1..(k - 1) : a[i] = 1
             up == a[k] = 1 /\ (below \/ kept[1] = 1)
         IN Zeros(k) \o (IF up THEN BigAdd(kept, <<1>>) ELSE kept)

\* The binary digits of a natural number, least significant first.
RECURSIVE NatBits(_)
NatBits(q) == IF q = 0 THEN <<>> ELSE <<q % 2>> \o NatBits(q \div 2)

\* 2^n modulo m
RECURSIVE Pow2Mod(_, _)
Pow2Mod(n, m) == IF n = 0 THEN 1 % m ELSE (2 * Pow2Mod(n - 1, m)) % m

\* The n-th binary digit of r / 100 after the point (r < 100), the first n
\* digits, last digit first, and the remainder left after them.
HundredthsBit(r, n) == ((r * Pow2Mod(n, 200)) % 200) \div 100
HundredthsBits(r, n) == [i \in 1..n |-> HundredthsBit(r, n + 1 - i)]
HundredthsRest(r, n) == (r * Pow2Mod(n, 100)) % 100

\* The float of the decimal literal for c hundredths (c >= 0), such as 0.02 or
\* the keyword argument 1.05.
Float(c) ==
    [negative |-> FALSE,
     magnitude |-> RoundToNearestEven(
                       Canonical(HundredthsBits(c % 100, FractionBits) \o NatBits(c \div 100)),
                       HundredthsRest(c % 100, FractionBits) # 0)]

FloatZero == [negative |-> FALSE, magnitude |-> <<>>]

\* x + y
FloatAdd(x, y) ==
    IF x.negative = y.negative
    THEN [negative |-> x.negative,
          magnitude |-> RoundToNearestEven(BigAdd(x.magnitude, y.magnitude), FALSE)]
    ELSE IF x.magnitude = y.magnitude THEN FloatZero
    ELSE IF BigLess(x.magnitude, y.magnitude)
    THEN [negative |-> y.negative,
          magnitude |-> RoundToNearestEven(BigSub(y.magnitude, x.magnitude), FALSE)]
    ELSE [negative |-> x.negative,
          magnitude |-> RoundToNearestEven(BigSub(x.magnitude, y.magnitude), FALSE)]

\* x - y, abs(x), x > y
FloatNeg(x) == IF x.magnitude = <<>> THEN x ELSE [x EXCEPT !.negative = ~x.negative]
FloatSub(x, y) == FloatAdd(x, FloatNeg(y))
FloatAbs(x) == [x EXCEPT !.negative = FALSE]
FloatGreater(x, y) ==
    IF x.negative # y.negative THEN y.negative
    ELSE IF x.negative THEN BigLess(x.magnitude, y.magnitude)
    ELSE BigLess(y.magnitude, x.magnitude)

\* (x or 0) on an Optional[float]: None and 0.0 both give the int 0, which
\* adds exactly.
FloatOrZero(o) == IF IsNone(o) \/ Get(o) = 0 THEN FloatZero ELSE Float(Get(o))

\* abs(expected - declared) > 0.02
FloatExceeds(expected, declared) ==
    FloatGreater(FloatAbs(FloatSub(expected, Float(declared))), Float(Tolerance))

\* validate_amounts in floats; s holds the keyword arguments in hundredths.
FloatValidateAmounts(s) ==
    IF /\ Rule1Applies(s)
       /\ FloatExceeds(FloatSub(FloatAdd(Float(Get(s.line_total_amount)),
                                         FloatOrZero(s.charge_total_amount)),
                                FloatOrZero(s.allowance_total_amount)),
                       s.tax_basis_total_amount)
    THEN Some(Rule1Error)
    ELSE IF FloatExceeds(FloatAdd(FloatAdd(Float(s.tax_basis_total_amount),
                                           FloatOrZero(s.tax_total_amount)),
                                  FloatOrZero(s.rounding_amount)),
                         s.grand_total_amount)
    THEN Some(Rule2Error)
    ELSE IF FloatExceeds(FloatSub(Float(s.grand_total_amount),
                                  FloatOrZero(s.total_prepaid_amount)),
                         s.due_payable_amount)
    THEN Some(Rule3Error)
    ELSE None

\* TradeSettlementHeaderMonetarySummation(**part), the amounts being floats
ConstructFloatSummation ==
    /\ ~IsNone(part)
    /\ Get(part).class = "TradeSettlementHeaderMonetarySummation"
    /\ IsNone(partOut)
    /\ partOut' = LET e == FloatValidateAmounts(Get(part).fields)
                  IN IF IsNone(e) THEN PartReturned("__init__", None, <<>>)
                     ELSE PartRaised("__init__", None, "ValidationError", Get(e).message)
    /\ UNCHANGED <<part, graphVars, profileVars, moneyVars, dateVars, txVars, callVars, keptVars>>

(***************************************************************************)
(* Specification of the summation's construction from float amounts.       *)
(***************************************************************************)
MaxCents == 5
FloatOptional == {None, Some(1)}
FloatSummations ==
    [line_total_amount : {None, Some(0), Some(MaxCents)},
     charge_total_amount : {Some(0)},
     allowance_total_amount : {Some(0)},
     tax_basis_total_amount : 0..MaxCents,
     tax_total_amount : FloatOptional,
     rounding_amount : {None},
     grand_total_amount : 0..MaxCents,
     total_prepaid_amount : FloatOptional,
     due_payable_amount : 0..MaxCents]

InitFloat ==
    /\ part \in {Some([class |-> "TradeSettlementHeaderMonetarySummation", fields |-> s]) :
                    s \in FloatSummations}
    /\ partOut = None
    /\ IdleGraph /\ IdleProfile /\ IdleMoney /\ IdleTx /\ IdleKept /\ IdleCalls
    /\ IdleGenerator /\ IdleDate

NextFloat == ConstructFloatSummation
SpecFloat == InitFloat /\ [][NextFloat]_vars

(***************************************************************************)
(* Claims on the tolerance                                                 *)
(***************************************************************************)
FloatConstructionDone ==
    /\ part # <<>> /\ partOut # <<>>
    /\ part[1].class = "TradeSettlementHeaderMonetarySummation"
    /\ partOut[1].op = "__init__"

\* C27: with amounts in whole cents, the constructor accepts the summation
\* iff each rule's computed and declared totals differ by at most 2 cents
\* (rule 1 only with its three operands present), in either direction, and
\* rejects it when one differs by 3 cents or more.
C27_ToleranceTwoCents ==
    FloatConstructionDone =>
        LET s == part[1].fields
        IN ~partOut[1].raised
              <=> /\ (AllThreePresent(s) => Rule1Holds(s))
                  /\ Rule2Holds(s)
                  /\ Rule3Holds(s)

(***************************************************************************)
(* Comparison of an InvoiceProfile with any value.  An operand is a value  *)
(* with its type; InvoiceProfile is a StrEnum, so a subclass of str.       *)
(***************************************************************************)
ProfileOperand(p) == [type |-> "InvoiceProfile", member |-> p, value |-> Value(p)]
StrOperand(s) == [type |-> "str", member |-> "", value |-> s]
OtherOperand(t) == [type |-> t, member |-> "", value |-> <<>>]

ProfileOperands == {ProfileOperand(p) : p \in Profiles}
\* Plain strings equal to a profile's URN, the empty string, an int and None.
ForeignOperands ==
    {StrOperand(Value(p)) : p \in Profiles} \cup {StrOperand(<<>>)}
        \cup {OtherOperand("int"), OtherOperand("NoneType")}

Operators == {"<", "<=", ">", ">="}
Reflected(op) ==
    CASE op = "<" -> ">" [] op = "<=" -> ">=" [] op = ">" -> "<" [] op = ">=" -> "<="

IsStr(x) == x.type \in {"str", "InvoiceProfile"}

\* InvoiceProfile.__lt__, __le__, __gt__, __ge__: None stands for NotImplemented.
InvoiceProfileCompare(op, self, other) ==
    IF other.type # "InvoiceProfile" THEN None
    ELSE Some(CASE op = "<" -> ProfileLt(self.member, other.member)
                [] op = "<=" -> ProfileLe(self.member, other.member)
                [] op = ">" -> ProfileGt(self.member, other.member)
                [] op = ">=" -> ProfileGe(self.member, other.member))

\* str.__lt__, __le__, __gt__, __ge__: defined when other is a str instance
StrCompare(op, self, other) ==
    IF ~IsStr(other) THEN None
    ELSE Some(CASE op = "<" -> StrLess(self.value, other.value)
                [] op = "<=" -> ~StrLess(other.value, self.value)
                [] op = ">" -> StrLess(other.value, self.value)
                [] op = ">=" -> ~StrLess(self.value, other.value))

\* type(self).__op__(self, other); int and NoneType know no str
RichCompare(op, self, other) ==
    IF self.type = "InvoiceProfile" THEN InvoiceProfileCompare(op, self, other)
    ELSE IF self.type = "str" THEN StrCompare(op, self, other)
    ELSE None

\* The interpreter's evaluation of  left op right : the reflected method of the
\* right operand goes first when its type is a proper subclass of the left
\* operand's; a NotImplemented falls through to the other operand's method;
\* two NotImplemented raise TypeError.
Evaluate(op, left, right) ==
    LET own == RichCompare(op, left, right)
        reflected == RichCompare(Reflected(op), right, left)
        rightFirst == left.type = "str" /\ right.type = "InvoiceProfile"
        first == IF rightFirst THEN reflected ELSE own
        second == IF rightFirst THEN own ELSE reflected
    IN IF ~IsNone(first) THEN [op |-> op, raised |-> FALSE, exception |-> "", value |-> first]
       ELSE IF ~IsNone(second)
       THEN [op |-> op, raised |-> FALSE, exception |-> "", value |-> second]
       ELSE [op |-> op, raised |-> TRUE, exception |-> "TypeError", value |-> None]

\* left op right
EvaluateComparison(op) ==
    /\ ~IsNone(part)
    /\ Get(part).class = "comparison"
    /\ partOut' = Some(Evaluate(op, Get(part).left, Get(part).right))
    /\ UNCHANGED <<part, graphVars, profileVars, moneyVars, dateVars, txVars, callVars, keptVars>>

(***************************************************************************)
(* Specification of the comparisons: a profile on one side, any value on   *)
(* the other, every operator.                                              *)
(***************************************************************************)
InitComparison ==
    /\ part \in {Some([class |-> "comparison", left |-> l, right |-> r]) :
                    l \in ProfileOperands \cup ForeignOperands,
                    r \in ProfileOperands \cup ForeignOperands}
    /\ Get(part).left \in ProfileOperands \/ Get(part).right \in ProfileOperands
    /\ partOut = None
    /\ IdleGraph /\ IdleProfile /\ IdleMoney /\ IdleTx /\ IdleKept /\ IdleCalls
    /\ IdleGenerator /\ IdleDate

NextComparison == \E op \in Operators : EvaluateComparison(op)
SpecComparison == InitComparison /\ [][NextComparison]_vars

\* C28: an ordering comparison between an InvoiceProfile and a value that is
\* not an InvoiceProfile, a plain string equal to a profile's URN included, on
\* either side of the operator, raises TypeError and yields no boolean.
C28_ForeignOperandRaises ==
    (/\ part # <<>> /\ partOut # <<>>
     /\ part[1].class = "comparison"
     /\ (part[1].left.type # "InvoiceProfile" \/ part[1].right.type # "InvoiceProfile"))
        => (partOut[1].raised /\ partOut[1].exception = "TypeError" /\ partOut[1].value = <<>>)

(***************************************************************************)
(* ExchangedDocument.add_note                                              *)
(***************************************************************************)
\* The document taken on its own: included_notes as construction left it.
DocumentOf(ns) == [class |-> "ExchangedDocument", included_notes |-> ns]

NoteAdded(content) ==
    [op |-> "add_note", content |-> content, raised |-> FALSE,
     exception |-> "", message |-> ""]
NoteRefused(content) ==
    [op |-> "add_note", content |-> content, raised |-> TRUE,
     exception |-> "ValueError",
     message |-> "Maximum number of notes (10) exceeded"]

\* if self.included_notes is None: self.included_notes = []
NotesOrEmpty(ns) == IF IsNone(ns) THEN <<>> ELSE Get(ns)

\* add_note(content): the list is created when it is None, the call raises
\* when the list is full, and otherwise the new Note is appended to the list
\* in place; validate_notes runs at construction only.
AddNote(content) ==
    /\ ~IsNone(part) /\ Get(part).class = "ExchangedDocument"
    /\ LET held == NotesOrEmpty(Get(part).included_notes)
       IN  IF Len(held) >= MAX_NOTES
           THEN /\ part' = Some(DocumentOf(Some(held)))
                /\ partOut' = Some(NoteRefused(content))
           ELSE /\ part' = Some(DocumentOf(Some(Append(held, content))))
                /\ partOut' = Some(NoteAdded(content))
    /\ UNCHANGED <<graphVars, profileVars, moneyVars, dateVars, txVars, keptVars,
                   callVars>>

(***************************************************************************)
(* Specification of the notes: every constructed document, then any calls  *)
(* of add_note.                                                            *)
(***************************************************************************)
InitNotes ==
    /\ part \in {Some(DocumentOf(ns)) : ns \in ConstructedNotes}
    /\ partOut = None
    /\ IdleGraph /\ IdleProfile /\ IdleMoney /\ IdleTx /\ IdleKept /\ IdleCalls
    /\ IdleGenerator /\ IdleDate

NextNotes == \E content \in NoteContents : AddNote(content)
SpecNotes == InitNotes /\ [][NextNotes]_vars

HeldNotes == IF part # <<>> /\ part[1].class = "ExchangedDocument"
             THEN NotesOrEmpty(part[1].included_notes)
             ELSE <<>>

\* C29: after construction and any sequence of add_note calls, accepted or
\* refused, no two entries of included_notes have the same content and the
\* list has at most MAX_NOTES entries.
C29_NotesStayUnique ==
    /\ Len(HeldNotes) <= MAX_NOTES
    /\ \A i, j \in 1..Len(HeldNotes) : HeldNotes[i] = HeldNotes[j] => i = j

(***************************************************************************)
(* LineTradeAgreement: the prices of a line                                *)
(***************************************************************************)
MaxPrice == 8
PriceAmounts == 1..MaxPrice

\* The keyword arguments of a construction: a function on the names passed.
\* gross_price_product_trade_price may be left out, passed as None or passed
\* as a TradePrice; net_price_product_trade_price may be left out or passed
\* as a TradePrice (charge_amount > 0).
GrossArguments == {None} \cup {Some(a) : a \in PriceAmounts}
NetArguments == {Some(a) : a \in PriceAmounts}
AgreementArguments ==
    UNION {[names -> GrossArguments \cup NetArguments] :
              names \in SUBSET {"gross_price_product_trade_price",
                                "net_price_product_trade_price"}}
LineTradeAgreementArguments ==
    {k \in AgreementArguments :
        /\ "gross_price_product_trade_price" \in DOMAIN k
              => k["gross_price_product_trade_price"] \in GrossArguments
        /\ "net_price_product_trade_price" \in DOMAIN k
              => k["net_price_product_trade_price"] \in NetArguments}

AgreementDone(op, raised, exception, message) ==
    [op |-> op, raised |-> raised, exception |-> exception, message |-> message]

\* What a field validator declared with a second positional parameter is
\* handed for it: the ValidationInfo of the run, which has no __contains__.
\* 'net_price_product_trade_price' in values therefore raises TypeError.
InValues(name) ==
    [raised |-> TRUE, exception |-> "TypeError",
     message |-> "argument of type 'ValidationInfo' is not iterable"]

\* validate_gross_price(value, values): None when it returns value, and what
\* it raises otherwise.  The membership test is evaluated whenever value is
\* not None and its exception leaves the validator before any amount is read.
ValidateGrossPrice(value) ==
    IF ~IsNone(value)
    THEN LET test == InValues("net_price_product_trade_price")
         IN  IF test.raised THEN Some(test) ELSE None
    ELSE None

\* validate_net_price(value): value is never None for a required field.
ValidateNetPrice(value) ==
    IF IsNone(value)
    THEN Some([raised |-> TRUE, exception |-> "ValidationError",
               message |-> "Net price is required"])
    ELSE None

\* Validation of the fields in their order of declaration, gross before net.
\* A field that is not passed takes its default without validation; an
\* exception that is no ValueError or AssertionError leaves at once; a
\* missing required field is a ValidationError.
ValidateAgreement(k) ==
    LET grossPassed == "gross_price_product_trade_price" \in DOMAIN k
        netPassed == "net_price_product_trade_price" \in DOMAIN k
        gross == IF grossPassed
                 THEN ValidateGrossPrice(k["gross_price_product_trade_price"])
                 ELSE None
    IN  IF ~IsNone(gross) THEN gross
        ELSE IF ~netPassed
             THEN Some([raised |-> TRUE, exception |-> "ValidationError",
                        message |-> "Field required"])
             ELSE ValidateNetPrice(k["net_price_product_trade_price"])

AgreementOf(k) ==
    [gross_price_product_trade_price |->
        IF "gross_price_product_trade_price" \in DOMAIN k
        THEN k["gross_price_product_trade_price"] ELSE None,
     net_price_product_trade_price |-> k["net_price_product_trade_price"]]

\* LineTradeAgreement(**kwargs)
ConstructLineTradeAgreement ==
    /\ ~IsNone(part) /\ Get(part).class = "LineTradeAgreement"
    /\ IsNone(partOut)
    /\ LET k == Get(part).kwargs
           failure == ValidateAgreement(k)
       IN  IF IsNone(failure)
           THEN /\ part' = Some([Get(part) EXCEPT !.object = Some(AgreementOf(k))])
                /\ partOut' = Some(AgreementDone("construct", FALSE, "", ""))
           ELSE /\ part' = part
                /\ partOut' = Some(AgreementDone("construct", TRUE,
                                                 Get(failure).exception,
                                                 Get(failure).message))
    /\ UNCHANGED <<graphVars, profileVars, moneyVars, dateVars, txVars, keptVars,
                   callVars>>

\* agreement.gross_price_product_trade_price = value (validate_assignment=True)
AssignGrossPrice(value) ==
    /\ ~IsNone(part) /\ Get(part).class = "LineTradeAgreement"
    /\ ~IsNone(Get(part).object)
    /\ LET failure == ValidateGrossPrice(value)
       IN  IF IsNone(failure)
           THEN /\ part' = Some([Get(part) EXCEPT
                                   !.object = Some([Get(Get(part).object) EXCEPT
                                       !.gross_price_product_trade_price = value])])
                /\ partOut' = Some(AgreementDone("assign", FALSE, "", ""))
           ELSE /\ part' = part
                /\ partOut' = Some(AgreementDone("assign", TRUE,
                                                 Get(failure).exception,
                                                 Get(failure).message))
    /\ UNCHANGED <<graphVars, profileVars, moneyVars, dateVars, txVars, keptVars,
                   callVars>>

(***************************************************************************)
(* Specification of the line prices: every construction, then assignments  *)
(* of the gross price.                                                     *)
(***************************************************************************)
InitLineTradeAgreement ==
    /\ part \in {Some([class |-> "LineTradeAgreement", kwargs |-> k, object |-> None]) :
                    k \in LineTradeAgreementArguments}
    /\ partOut = None
    /\ IdleGraph /\ IdleProfile /\ IdleMoney /\ IdleTx /\ IdleKept /\ IdleCalls
    /\ IdleGenerator /\ IdleDate

NextLineTradeAgreement ==
    \/ ConstructLineTradeAgreement
    \/ \E value \in GrossArguments : AssignGrossPrice(value)
SpecLineTradeAgreement == InitLineTradeAgreement /\ [][NextLineTradeAgreement]_vars

\* A construction with both prices passed has run.
PricesConstructed ==
    /\ part # <<>> /\ partOut # <<>>
    /\ part[1].class = "LineTradeAgreement"
    /\ partOut[1].op = "construct"
    /\ "net_price_product_trade_price" \in DOMAIN part[1].kwargs

GrossArgument ==
    IF "gross_price_product_trade_price" \in DOMAIN part[1].kwargs
    THEN part[1].kwargs["gross_price_product_trade_price"]
    ELSE None

\* C30: a construction whose gross price amount is lower than its net price
\* amount fails with the validation error "Gross price cannot be less than
\* net price", and one whose gross price is absent or not lower than the net
\* price succeeds.
C30_GrossNotBelowNet ==
    PricesConstructed =>
        LET net == part[1].kwargs["net_price_product_trade_price"][1]
            lower == GrossArgument # <<>> /\ GrossArgument[1] < net
        IN  IF lower
            THEN /\ partOut[1].raised
                 /\ partOut[1].exception = "ValidationError"
                 /\ partOut[1].message = "Gross price cannot be less than net price"
            ELSE ~partOut[1].raised

====
